---- MODULE Spec2Model ----
(***************************************************************************)
(* A model of the rq lexical front-end: the Lexer (src/src/lex.rs), the    *)
(* literal classifier (Numerical::from_suffix, Numerical::parse_untyped),  *)
(* the vector grouping pass (src/src/parse.rs, preprocess) and the         *)
(* temporal types' literal conversions (src/src/qtype/chrono.rs).          *)
(*                                                                         *)
(* A source text is a sequence of characters, each a one-character string  *)
(* (or a label such as "U+00E9" for a character outside ASCII).  Offsets   *)
(* and lengths are in bytes, as in the code: Utf8Len gives a character's   *)
(* width.                                                                  *)
(***************************************************************************)
EXTENDS Integers, Sequences, FiniteSets, TLC

VARIABLES
    whole,      \* Lexer.whole: the source text
    rest,       \* Lexer.rest: the text not yet consumed
    byte,       \* Lexer.byte: the byte offset of rest in whole
    peeked,     \* Lexer.peeked: None or Some(item)
    out,        \* history: the items returned by the calls of next, in order
    ret,        \* history: the last call and the item it returned
    prior,      \* history: the call before the last and the item it returned
    pre,        \* the result of preprocess(whole), or NotRun
    cls_in,     \* classifier: the arguments handed to parse_untyped / from_suffix
    cls_out,    \* classifier: what the call returned
    tv,         \* temporal: the value under conversion
    lit,        \* temporal: to_literal's text
    back        \* temporal: from_literal's result

vars == <<whole, rest, byte, peeked, out, ret, prior, pre, cls_in, cls_out, tv, lit, back>>

(***************************************************************************)
(* Bounds of the model.                                                    *)
(***************************************************************************)
MaxLen == 4         \* longest enumerated source text, in characters
MaxCalls == 5       \* calls of next recorded per Lexer
MaxText == 5        \* longest literal text handed to parse_untyped
SecSpan == 70       \* counts enumerated on each side of a sampled value
MaxOps == 3         \* operator calls applied to one temporal value

(***************************************************************************)
(* Characters.                                                             *)
(***************************************************************************)
Lower == {"a","b","c","d","e","f","g","h","i","j","k","l","m",
          "n","o","p","q","r","s","t","u","v","w","x","y","z"}
Upper == {"A","B","C","D","E","F","G","H","I","J","K","L","M",
          "N","O","P","Q","R","S","T","U","V","W","X","Y","Z"}
Digits == {"0","1","2","3","4","5","6","7","8","9"}

\* char::is_ascii_alphanumeric
AsciiAlphanumeric == Lower \cup Upper \cup Digits

\* char::is_ascii_hexdigit
AsciiHexdigit == Digits \cup {"a","b","c","d","e","f","A","B","C","D","E","F"}

\* Characters encoded in two bytes: U+00E9 (e acute), U+00A0 (no-break space).
TwoByteChars == {"U+00E9", "U+00A0"}

\* The backtick, which a TLA+ string cannot hold (lex.rs 533).
Backtick == "U+0060"

\* char::len_utf8
Utf8Len(c) == IF c \in TwoByteChars THEN 2 ELSE 1

\* The bytes of a character (str::as_bytes).
Utf8Bytes(c) ==
    IF c = "U+00E9" THEN <<"0xC3", "0xA9">>
    ELSE IF c = "U+00A0" THEN <<"0xC2", "0xA0">>
    ELSE <<c>>

\* char::is_whitespace: U+000B is the vertical tab.
IsWhitespace(c) == c \in {" ", "\t", "\n", "\r", "\f", "U+000B", "U+00A0"}

\* u8::is_ascii_whitespace: space, tab, line feed, form feed, carriage return.
IsAsciiWhitespace(b) == b \in {" ", "\t", "\n", "\f", "\r"}

(***************************************************************************)
(* Strings: str::len, str::as_bytes, slicing by byte index, find.          *)
(***************************************************************************)
RECURSIVE StrLen(_)
StrLen(s) == IF s = <<>> THEN 0 ELSE Utf8Len(Head(s)) + StrLen(Tail(s))

RECURSIVE AsBytes(_)
AsBytes(s) == IF s = <<>> THEN <<>> ELSE Utf8Bytes(Head(s)) \o AsBytes(Tail(s))

\* The number of characters in the first n bytes of s; n is a character
\* boundary wherever the code slices.
CharsIn(s, n) == CHOOSE k \in 0..Len(s) : StrLen(SubSeq(s, 1, k)) = n

\* &s[n..]
SliceFrom(s, n) == SubSeq(s, CharsIn(s, n) + 1, Len(s))

\* &s[..n]
SliceTo(s, n) == SubSeq(s, 1, CharsIn(s, n))

Min(S) == CHOOSE x \in S : \A y \in S : x <= y
Max(S) == CHOOSE x \in S : \A y \in S : x >= y

\* s.find(|c| c \notin S).unwrap_or(s.len()): the byte index of the first
\* character of s outside S, or the length of s.
FindNotIn(s, S) ==
    LET hits == {i \in 1..Len(s) : s[i] \notin S}
    IN  IF hits = {} THEN StrLen(s) ELSE StrLen(SubSeq(s, 1, Min(hits) - 1))

\* s.find(c): the byte index of the first c in s, or -1 for None.
FindChar(s, c) ==
    LET hits == {i \in 1..Len(s) : s[i] = c}
    IN  IF hits = {} THEN -1 ELSE StrLen(SubSeq(s, 1, Min(hits) - 1))

\* s.starts_with(c)
StartsWith(s, c) == s # <<>> /\ Head(s) = c

\* s.contains(c)
Contains(s, c) == \E i \in 1..Len(s) : s[i] = c

\* s.matches(c).count()
MatchCount(s, c) == Cardinality({i \in 1..Len(s) : s[i] = c})

\* s.split(c).next().unwrap_or(""): the text before the first c.
SplitFirst(s, c) ==
    LET hits == {i \in 1..Len(s) : s[i] = c}
    IN  IF hits = {} THEN s ELSE SubSeq(s, 1, Min(hits) - 1)

\* s.rsplit(c).next().unwrap_or(""): the text after the last c.
RSplitFirst(s, c) ==
    LET hits == {i \in 1..Len(s) : s[i] = c}
    IN  IF hits = {} THEN s ELSE SubSeq(s, Max(hits) + 1, Len(s))

(***************************************************************************)
(* Numerical: the literal classifier.                                      *)
(***************************************************************************)
Numerical == {"Boolean", "Short", "Int", "Long", "Real", "Float", "Char",
              "Date", "Month", "Minute", "Second", "Timespan", "Timestamp"}

\* from_suffix with the arm of 'v' copied from the arm of 'u'
from_suffix_MinuteTwice(c) ==
    CASE c = "b" -> "Boolean"
      [] c = "h" -> "Short"
      [] c = "i" -> "Int"
      [] c = "j" -> "Long"
      [] c = "e" -> "Real"
      [] c = "f" -> "Float"
      [] c = "d" -> "Date"
      [] c = "m" -> "Month"
      [] c = "u" -> "Minute"
      [] c = "v" -> "Minute"
      [] c = "n" -> "Timespan"
      [] c = "p" -> "Timestamp"
      [] OTHER   -> "None"

\* Numerical::from_suffix; "None" is Option::None.
from_suffix(c) ==
    CASE c = "b" -> "Boolean"
      [] c = "h" -> "Short"
      [] c = "i" -> "Int"
      [] c = "j" -> "Long"
      [] c = "e" -> "Real"
      [] c = "f" -> "Float"
      [] c = "d" -> "Date"
      [] c = "m" -> "Month"
      [] c = "u" -> "Minute"
      [] c = "v" -> "Second"
      [] c = "n" -> "Timespan"
      [] c = "p" -> "Timestamp"
      [] OTHER   -> "None"

\* InvalidLiteralError { literal, err_span: lo..hi, help }
InvalidLiteralError(origin, offset, help) ==
    [res |-> "Err", err |-> "InvalidLiteralError", literal |-> origin,
     lo |-> offset, hi |-> offset + StrLen(origin), help |-> help]

HelpAmbiguous == "HH:MM.xxx is ambiguous; use explicit patterns like HH:MM:SS.xxx or HH:MM:SS"

\* has_fractional, taken from the whole literal instead of the last segment
has_fractional_Whole(origin) == Contains(origin, ".")

\* has_fractional: the text after the last colon contains a dot (lex.rs 92-93)
has_fractional(origin) ==
    LET after_last_colon == RSplitFirst(origin, ":")
    IN  Contains(after_last_colon, ".")

\* Numerical::parse_untyped: [res |-> "Ok", kind |-> k] or an InvalidLiteralError.
parse_untyped(origin, offset) ==
    LET has_d == Contains(origin, "D")
        colon_count == MatchCount(origin, ":")
        dot_count == MatchCount(origin, ".")
        result ==
            IF has_d THEN
                LET before_d == SplitFirst(origin, "D")
                IN  IF Contains(before_d, ".") THEN "Timestamp" ELSE "Timespan"
            ELSE IF colon_count > 0 THEN
                CASE colon_count = 1 /\ ~has_fractional(origin) -> "Minute"
                  [] colon_count = 1 /\ has_fractional(origin) -> "ReturnErr"
                  [] colon_count = 2 /\ ~has_fractional(origin) -> "Second"
                  [] colon_count = 2 /\ has_fractional(origin) -> "Timespan"
                  [] OTHER -> "None"
            ELSE IF dot_count > 0 THEN
                IF dot_count = 2 THEN "Date"
                ELSE IF dot_count = 1 THEN "Float"
                ELSE "None"
            ELSE "Long"
    IN  CASE result = "ReturnErr" -> InvalidLiteralError(origin, offset, HelpAmbiguous)
          [] result = "None" -> InvalidLiteralError(origin, offset, "None")
          [] OTHER -> [res |-> "Ok", kind |-> result]

(***************************************************************************)
(* Tokens and the items of the token stream.                               *)
(***************************************************************************)
\* A TokenKind without payload, and the two kinds of payload.
K(tag) == [tag |-> tag, arg |-> "-"]
Typed(n) == [tag |-> "Typed", arg |-> n]
Untyped(n) == [tag |-> "Untyped", arg |-> n]
AssignThroughKind(a) == [tag |-> "AssignThrough", arg |-> a]

\* Some(Ok(Token { origin, offset, kind }))
Token(origin, offset, kind) ==
    [res |-> "Ok", origin |-> origin, offset |-> offset, kind |-> kind]

\* Option::None, of an item and of Lexer.peeked
NoneItem == [res |-> "None"]

\* Some(Err(SingleTokenError { token, err_span: lo..hi, help }))
SingleTokenError(token, lo, hi, help) ==
    [res |-> "Err", err |-> "SingleTokenError", token |-> token,
     lo |-> lo, hi |-> hi, help |-> help]

HelpSymbol == "a symbol starting with _ is ambiguous in q"

\* Some(Err(StringTerminationError { err_span: lo..hi }))
StringTerminationError(lo, hi) ==
    [res |-> "Err", err |-> "StringTerminationError", lo |-> lo, hi |-> hi]

\* The characters of the assign-through arm (lex.rs 424-425).
VerbGlyphs == {".", "@", "$", "!", "?", "+", "-", "*", "%", "=", "~", "<",
               ">", "|", "&", "#", "_", "^", ","}

\* AssignThrough::from_char
AssignThrough_from_char(c) ==
    CASE c = "." -> "Dot"
      [] c = "@" -> "At"
      [] c = "$" -> "Dollar"
      [] c = "!" -> "Bang"
      [] c = "?" -> "Query"
      [] c = "+" -> "Plus"
      [] c = "-" -> "Minus"
      [] c = "*" -> "Star"
      [] c = "%" -> "Percent"
      [] c = "=" -> "Equal"
      [] c = "~" -> "Tilde"
      [] c = "<" -> "Less"
      [] c = ">" -> "Greater"
      [] c = "|" -> "Pipe"
      [] c = "&" -> "Ampersand"
      [] c = "#" -> "Hash"
      [] c = "_" -> "Underscore"
      [] c = "^" -> "Caret"
      [] c = "," -> "Comma"
      [] OTHER   -> "None"

\* The one-character kind of a verb glyph (lex.rs 466-484).
GlyphKind(c) ==
    CASE c = "." -> K("Dot")
      [] c = "@" -> K("At")
      [] c = "$" -> K("Dollar")
      [] c = "!" -> K("Bang")
      [] c = "?" -> K("Query")
      [] c = "+" -> K("Plus")
      [] c = "-" -> K("Minus")
      [] c = "*" -> K("Star")
      [] c = "%" -> K("Percent")
      [] c = "=" -> K("Equal")
      [] c = "~" -> K("Tilde")
      [] c = "<" -> K("Less")
      [] c = ">" -> K("Greater")
      [] c = "|" -> K("Pipe")
      [] c = "&" -> K("Ampersand")
      [] c = "#" -> K("Hash")
      [] c = "_" -> K("Underscore")
      [] c = "^" -> K("Caret")
      [] c = "," -> K("Comma")

\* The one-character structural tokens (lex.rs 417-423).
StructuralKind(c) ==
    CASE c = "(" -> K("LeftParen")
      [] c = ")" -> K("RightParen")
      [] c = "{" -> K("LeftBrace")
      [] c = "}" -> K("RightBrace")
      [] c = "[" -> K("LeftBracket")
      [] c = "]" -> K("RightBracket")
      [] c = ";" -> K("Semicolon")

Structural == {"(", ")", "{", "}", "[", "]", ";"}

\* The characters of a symbol's body (lex.rs 573).
SymbolBody == AsciiAlphanumeric \cup {"_", ":"}

\* The characters of an identifier (lex.rs 676).
IdentBody == Lower \cup Upper \cup Digits \cup {"_"}

\* The characters of a numeric literal's body (lex.rs 716).
NumBody == {".", ":", "D", "N", "W", "n", "w"} \cup Digits

(***************************************************************************)
(* Lexer::next.  A step of the scan is given the Lexer's rest and byte     *)
(* and returns the item with the rest and byte it leaves.                  *)
(***************************************************************************)
\* self.byte += n without self.rest = &self.rest[n..]
Consume_ByteOnly(r, b, n) == [rest |-> r, byte |-> b + n]

\* self.rest = &self.rest[n..]; self.byte += n
Consume(r, b, n) == [rest |-> SliceFrom(r, n), byte |-> b + n]

\* The value of one pass of next: the item, and the Lexer's fields after it.
Yield(item, s) == [item |-> item, rest |-> s.rest, byte |-> s.byte]

\* A two-byte token: the current character and the one after it.
TwoBytes(kind, c_at, c_onwards, r1, b1) ==
    Yield(Token(SliceTo(c_onwards, 2), c_at, kind), Consume(r1, b1, 1))

\* The mutant of the verb arm that probes `<>`, `<=`, `>=` and the colon
\* for `<` and `>` alone after the single glyph.
VerbArm_LessGreaterSingle(c, c_at, c_onwards, r1, b1) ==
    IF StartsWith(r1, ":") /\ c \notin {"<", ">"} THEN
        TwoBytes(AssignThroughKind(AssignThrough_from_char(c)), c_at, c_onwards, r1, b1)
    ELSE IF c = "<" /\ StartsWith(r1, ">") THEN
        TwoBytes(K("NotEqual"), c_at, c_onwards, r1, b1)
    ELSE IF c = "<" /\ StartsWith(r1, "=") THEN
        TwoBytes(K("LessEqual"), c_at, c_onwards, r1, b1)
    ELSE IF c = ">" /\ StartsWith(r1, "=") THEN
        TwoBytes(K("GreaterEqual"), c_at, c_onwards, r1, b1)
    ELSE
        Yield(Token(<<c>>, c_at, GlyphKind(c)), [rest |-> r1, byte |-> b1])

\* The arm of the verb glyphs (lex.rs 424-488).
VerbArm(c, c_at, c_onwards, r1, b1) ==
    IF StartsWith(r1, ":") THEN
        TwoBytes(AssignThroughKind(AssignThrough_from_char(c)), c_at, c_onwards, r1, b1)
    ELSE IF c = "<" /\ StartsWith(r1, ">") THEN
        TwoBytes(K("NotEqual"), c_at, c_onwards, r1, b1)
    ELSE IF c = "<" /\ StartsWith(r1, "=") THEN
        TwoBytes(K("LessEqual"), c_at, c_onwards, r1, b1)
    ELSE IF c = ">" /\ StartsWith(r1, "=") THEN
        TwoBytes(K("GreaterEqual"), c_at, c_onwards, r1, b1)
    ELSE
        Yield(Token(<<c>>, c_at, GlyphKind(c)), [rest |-> r1, byte |-> b1])

\* The mutant of Started::Symbol without the check of a leading underscore.
StartedSymbol_AnyStart(c_at, c_onwards, r1, b1) ==
    LET end == FindNotIn(r1, SymbolBody)
    IN  Yield(Token(SliceTo(c_onwards, end + 1), c_at, K("Symbol")),
              Consume(r1, b1, end))

\* Started::Symbol (lex.rs 550-600).
StartedSymbol(c_at, c_onwards, r1, b1) ==
    LET end == FindNotIn(r1, SymbolBody)
    IN  IF StartsWith(r1, "_") THEN
            LET c == Head(r1)
                err == SingleTokenError(c, b1, b1 + Utf8Len(c), HelpSymbol)
            IN  Yield(err, Consume(r1, b1, StrLen(r1)))
        ELSE
            Yield(Token(SliceTo(c_onwards, end + 1), c_at, K("Symbol")),
                  Consume(r1, b1, end))

\* The mutant of the closure that takes a backslash as any other byte.
RECURSIVE StringEnd_NoEscape(_, _, _)
StringEnd_NoEscape(bytes, i, escaped) ==
    IF i >= Len(bytes) THEN -1
    ELSE IF bytes[i + 1] = "\"" THEN i
    ELSE StringEnd_NoEscape(bytes, i + 1, FALSE)

\* The closure of bytes().position in Started::String (lex.rs 602-613):
\* the index of the first unescaped quote at or after i, or -1 for None.
RECURSIVE StringEnd(_, _, _)
StringEnd(bytes, i, escaped) ==
    IF i >= Len(bytes) THEN -1
    ELSE IF escaped THEN StringEnd(bytes, i + 1, FALSE)
    ELSE IF bytes[i + 1] = "\\" THEN StringEnd(bytes, i + 1, TRUE)
    ELSE IF bytes[i + 1] = "\"" THEN i
    ELSE StringEnd(bytes, i + 1, FALSE)

\* The mutant of Started::String that leaves the rest of the input in place.
StartedString_KeepsRest(w, c, c_at, c_onwards, r1, b1) ==
    LET end == StringEnd(AsBytes(r1), 0, FALSE)
    IN  IF end # -1 THEN
            LET token_kind == IF end = 1 THEN K("Char") ELSE K("QString")
            IN  Yield(Token(SliceTo(c_onwards, end + 1 + 1), c_at, token_kind),
                      Consume(r1, b1, end + 1))
        ELSE
            Yield(StringTerminationError(b1 - Utf8Len(c), StrLen(w)),
                  [rest |-> r1, byte |-> b1])

\* Started::String (lex.rs 601-640).
StartedString(w, c, c_at, c_onwards, r1, b1) ==
    LET end == StringEnd(AsBytes(r1), 0, FALSE)
    IN  IF end # -1 THEN
            LET token_kind == IF end = 1 THEN K("Char") ELSE K("QString")
            IN  Yield(Token(SliceTo(c_onwards, end + 1 + 1), c_at, token_kind),
                      Consume(r1, b1, end + 1))
        ELSE
            Yield(StringTerminationError(b1 - Utf8Len(c), StrLen(w)),
                  Consume(r1, b1, StrLen(r1)))

\* The length of the comment that a slash after whitespace starts (lex.rs 647-654).
CommentLen(r1) ==
    LET line_end == IF FindChar(r1, "\n") = -1 THEN StrLen(r1) ELSE FindChar(r1, "\n")
        comment_closed == FindChar(r1, "\\")
    IN  IF comment_closed # -1 THEN comment_closed + 1 ELSE line_end

\* Started::Slash when it is no comment (lex.rs 658-672).
StartedSlash(c, c_at, c_onwards, r1, b1) ==
    IF StartsWith(r1, ":") THEN
        TwoBytes(K("SlashColon"), c_at, c_onwards, r1, b1)
    ELSE
        Yield(Token(<<c>>, c_at, K("Slash")), [rest |-> r1, byte |-> b1])

\* Started::Identifier (lex.rs 674-689).
StartedIdentifier(c, c_at, c_onwards, r1, b1) ==
    LET first_non_ident == FindNotIn(c_onwards, IdentBody)
        literal == SliceTo(c_onwards, first_non_ident)
        extra_bytes == StrLen(literal) - Utf8Len(c)
    IN  Yield(Token(literal, c_at, K("Identifier")), Consume(r1, b1, extra_bytes))

\* The mutant of the hex literal that counts the digits after the prefix.
StartedHex_RunLen(c, c_at, c_onwards, r1, b1) ==
    LET after_0x == SliceFrom(c_onwards, 2)
        hex_len == FindNotIn(after_0x, AsciiHexdigit)
        first_non_digit == 2 + hex_len
        literal == SliceTo(c_onwards, first_non_digit)
        extra_bytes == StrLen(literal) - Utf8Len(c)
        token_kind == IF hex_len <= 4 THEN K("Byte") ELSE K("ByteVec")
    IN  Yield(Token(literal, c_at, token_kind), Consume(r1, b1, extra_bytes))

\* Started::Number, the hex literal (lex.rs 691-711).
StartedHex(c, c_at, c_onwards, r1, b1) ==
    LET after_0x == SliceFrom(c_onwards, 2)
        hex_len == FindNotIn(after_0x, AsciiHexdigit)
        first_non_digit == 2 + hex_len
        literal == SliceTo(c_onwards, first_non_digit)
        extra_bytes == StrLen(literal) - Utf8Len(c)
        token_kind == IF StrLen(literal) <= 4 THEN K("Byte") ELSE K("ByteVec")
    IN  Yield(Token(literal, c_at, token_kind), Consume(r1, b1, extra_bytes))

\* The mutant of the numeric literal whose error leaves the Lexer where the
\* literal starts.
StartedNumber_ErrStays(c, c_at, c_onwards, r1, b1) ==
    LET first_non_digit == FindNotIn(c_onwards, NumBody)
        after == SliceFrom(c_onwards, first_non_digit)
        suffix == IF after = <<>> THEN "NUL" ELSE Head(after)
    IN  IF from_suffix(suffix) # "None" THEN
            LET literal == SliceTo(c_onwards, first_non_digit + 1)
                extra_bytes == StrLen(literal) - Utf8Len(c)
            IN  Yield(Token(literal, c_at, Typed(from_suffix(suffix))),
                      Consume(r1, b1, extra_bytes))
        ELSE
            LET literal == SliceTo(c_onwards, first_non_digit)
                parsed == parse_untyped(literal, c_at)
                extra_bytes == StrLen(literal) - Utf8Len(c)
            IN  IF parsed.res = "Err" THEN
                    Yield(parsed, [rest |-> c_onwards, byte |-> c_at])
                ELSE
                    Yield(Token(literal, c_at, Untyped(parsed.kind)),
                          Consume(r1, b1, extra_bytes))

\* Started::Number, the numeric or temporal literal (lex.rs 713-744).
StartedNumber(c, c_at, c_onwards, r1, b1) ==
    LET first_non_digit == FindNotIn(c_onwards, NumBody)
        after == SliceFrom(c_onwards, first_non_digit)
        suffix == IF after = <<>> THEN "NUL" ELSE Head(after)
    IN  IF from_suffix(suffix) # "None" THEN
            LET literal == SliceTo(c_onwards, first_non_digit + 1)
                extra_bytes == StrLen(literal) - Utf8Len(c)
            IN  Yield(Token(literal, c_at, Typed(from_suffix(suffix))),
                      Consume(r1, b1, extra_bytes))
        ELSE
            LET literal == SliceTo(c_onwards, first_non_digit)
                parsed == parse_untyped(literal, c_at)
                extra_bytes == StrLen(literal) - Utf8Len(c)
            IN  IF parsed.res = "Err" THEN
                    Yield(parsed, [rest |-> r1, byte |-> b1])
                ELSE
                    Yield(Token(literal, c_at, Untyped(parsed.kind)),
                          Consume(r1, b1, extra_bytes))

\* The mutant of prev_whitespace that leaves out the first byte of the source.
prev_whitespace_NotAtStart(w, c_at) == c_at # 0 /\ IsAsciiWhitespace(AsBytes(w)[c_at])

\* prev_whitespace (lex.rs 396-397)
prev_whitespace(w, c_at) == c_at = 0 \/ IsAsciiWhitespace(AsBytes(w)[c_at])

\* The loop of next (lex.rs 387-747): whitespace and comments are passed over.
RECURSIVE LexLoop(_, _, _)
LexLoop(w, r, b) ==
    IF r = <<>> THEN Yield(NoneItem, [rest |-> r, byte |-> b])
    ELSE
        LET c == Head(r)
            c_at == b
            c_onwards == r
            r1 == Tail(r)
            b1 == b + Utf8Len(c)
            here == [rest |-> r1, byte |-> b1]
        IN  CASE c \in Structural ->
                    Yield(Token(<<c>>, c_at, StructuralKind(c)), here)
              [] c \in VerbGlyphs -> VerbArm(c, c_at, c_onwards, r1, b1)
              [] c = ":" ->
                    IF StartsWith(r1, ":")
                    THEN TwoBytes(K("ColonColon"), c_at, c_onwards, r1, b1)
                    ELSE Yield(Token(<<c>>, c_at, K("Colon")), here)
              [] c = "'" ->
                    IF StartsWith(r1, ":")
                    THEN TwoBytes(K("QuoteColon"), c_at, c_onwards, r1, b1)
                    ELSE Yield(Token(<<c>>, c_at, K("Quote")), here)
              [] c = "\\" ->
                    IF StartsWith(r1, ":")
                    THEN TwoBytes(K("BackslashColon"), c_at, c_onwards, r1, b1)
                    ELSE IF StartsWith(r1, "\\")
                    THEN TwoBytes(K("BackslashBackslash"), c_at, c_onwards, r1, b1)
                    ELSE Yield(Token(<<c>>, c_at, K("BackSlash")), here)
              [] c = Backtick -> StartedSymbol(c_at, c_onwards, r1, b1)
              [] c = "\"" -> StartedString(w, c, c_at, c_onwards, r1, b1)
              [] c = "/" ->
                    IF prev_whitespace(w, c_at) THEN
                        LET s == Consume(r1, b1, CommentLen(r1))
                        IN  LexLoop(w, s.rest, s.byte)
                    ELSE StartedSlash(c, c_at, c_onwards, r1, b1)
              [] c \in Lower \cup Upper -> StartedIdentifier(c, c_at, c_onwards, r1, b1)
              [] c \in Digits ->
                    IF c = "0" /\ StartsWith(r1, "x")
                    THEN StartedHex(c, c_at, c_onwards, r1, b1)
                    ELSE StartedNumber(c, c_at, c_onwards, r1, b1)
              [] IsWhitespace(c) -> LexLoop(w, r1, b1)
              [] OTHER ->
                    Yield(SingleTokenError(c, b1 - Utf8Len(c), b1, "None"), here)

\* Lexer::peek that hands the item on without keeping it
Lexer_peek_NoStore(w, r, b, p) ==
    IF p # NoneItem THEN [item |-> p, rest |-> r, byte |-> b, peeked |-> p]
    ELSE LET s == LexLoop(w, r, b)
         IN  [item |-> s.item, rest |-> s.rest, byte |-> s.byte, peeked |-> NoneItem]

\* Lexer::next (lex.rs 382-386, then the loop): the item returned and the
\* Lexer's fields after the call.
Lexer_next(w, r, b, p) ==
    IF p # NoneItem THEN
        [item |-> p, rest |-> r, byte |-> b, peeked |-> NoneItem]
    ELSE
        LET s == LexLoop(w, r, b)
        IN  [item |-> s.item, rest |-> s.rest, byte |-> s.byte, peeked |-> NoneItem]

\* Lexer::peek (lex.rs 368-375)
Lexer_peek(w, r, b, p) ==
    IF p # NoneItem THEN
        [item |-> p, rest |-> r, byte |-> b, peeked |-> p]
    ELSE
        LET n == Lexer_next(w, r, b, p)
        IN  [item |-> n.item, rest |-> n.rest, byte |-> n.byte, peeked |-> n.item]

(***************************************************************************)
(* preprocess: the vector grouping pass (parse.rs).                        *)
(***************************************************************************)
\* Some(Err(InvalidVectorLiteralError { err_span: lo..hi, help }))
InvalidVectorLiteralError(lo, hi) ==
    [res |-> "Err", err |-> "InvalidVectorLiteralError", lo |-> lo, hi |-> hi,
     help |-> "only the last element is allowed to have a suffix"]

\* PreToken::Single / String / ByteVec / SymbolVec
PreOne(variant, tok) == [pt |-> variant, tokens |-> <<tok>>, elem_type |-> "-"]

\* PreToken::Vector { tokens, elem_type }
PreVector(tokens, elem_type) ==
    [pt |-> "Vector", tokens |-> tokens, elem_type |-> elem_type]

is_numeric(kind) == kind.tag \in {"Typed", "Untyped"}

is_typed(kind) == kind.tag = "Typed"

\* The mutant of is_adjacent that lets one byte lie between the tokens.
is_adjacent_OneGap(prev, next) ==
    next.offset - (prev.offset + StrLen(prev.origin)) \in {0, 1}

is_adjacent(prev, next) == prev.offset + StrLen(prev.origin) = next.offset

\* collect that leaves the errors out and goes on
RECURSIVE collect_SkipErr(_, _, _, _, _)
collect_SkipErr(w, r, b, p, acc) ==
    LET n == Lexer_next(w, r, b, p)
    IN  CASE n.item.res = "None" -> [res |-> "Ok", tokens |-> acc]
          [] n.item.res = "Err" -> collect_SkipErr(w, n.rest, n.byte, n.peeked, acc)
          [] OTHER -> collect_SkipErr(w, n.rest, n.byte, n.peeked, Append(acc, n.item))

\* Lexer::new(input).collect::<Result<Vec<Token>, _>>() (parse.rs 52): the
\* tokens up to the end of the stream, or the first error.
RECURSIVE collect(_, _, _, _, _)
collect(w, r, b, p, acc) ==
    LET n == Lexer_next(w, r, b, p)
    IN  CASE n.item.res = "None" -> [res |-> "Ok", tokens |-> acc]
          [] n.item.res = "Err" -> [res |-> "Err", error |-> n.item]
          [] OTHER -> collect(w, n.rest, n.byte, n.peeked, Append(acc, n.item))

\* The inner loop (parse.rs 71-79): the group that starts at tokens[i].
RECURSIVE extend_group(_, _, _)
extend_group(tokens, i, group) ==
    IF i + Len(group) < Len(tokens) THEN
        LET next == tokens[i + Len(group) + 1]
        IN  IF is_numeric(next.kind) /\ is_adjacent(group[Len(group)], next)
            THEN extend_group(tokens, i, Append(group, next))
            ELSE group
    ELSE group

\* The pre-token of a token that is no number, or None (parse.rs 59-65).
\* The Lexer makes no token of kind String or SymbolVec.
direct_pretoken(tok) ==
    CASE tok.kind.tag = "String" -> PreOne("String", tok)
      [] tok.kind.tag = "ByteVec" -> PreOne("ByteVec", tok)
      [] tok.kind.tag = "SymbolVec" -> PreOne("SymbolVec", tok)
      [] ~is_numeric(tok.kind) -> PreOne("Single", tok)
      [] OTHER -> [pt |-> "None"]

\* elem_type (parse.rs 96-100): the kind of the group's last token.
group_elem_type(group) == group[Len(group)].kind.arg

\* The mutant of the outer loop that advances once more after a group of one.
RECURSIVE preprocess_loop_SkipsAfterSingle(_, _, _)
preprocess_loop_SkipsAfterSingle(tokens, i, result) ==
    IF ~(i < Len(tokens)) THEN [res |-> "Ok", pretokens |-> result]
    ELSE
        LET tok == tokens[i + 1]
        IN  IF direct_pretoken(tok).pt # "None" THEN
                preprocess_loop_SkipsAfterSingle(tokens, i + 1, Append(result, direct_pretoken(tok)))
            ELSE
                LET group == extend_group(tokens, i, <<tok>>)
                    before_last == {k \in 1..(Len(group) - 1) : is_typed(group[k].kind)}
                IN  IF Len(group) = 1 THEN
                        preprocess_loop_SkipsAfterSingle(tokens, i + Len(group) + 1,
                            Append(result, PreOne("Single", group[1])))
                    ELSE IF before_last # {} THEN
                        LET illegal == group[Min(before_last)]
                        IN  [res |-> "Err",
                             error |-> InvalidVectorLiteralError(
                                 illegal.offset, illegal.offset + StrLen(illegal.origin))]
                    ELSE
                        preprocess_loop_SkipsAfterSingle(tokens, i + Len(group),
                            Append(result, PreVector(group, group_elem_type(group))))

\* The outer loop (parse.rs 56-108), from index i (0-based) with the result so far.
RECURSIVE preprocess_loop(_, _, _)
preprocess_loop(tokens, i, result) ==
    IF ~(i < Len(tokens)) THEN [res |-> "Ok", pretokens |-> result]
    ELSE
        LET tok == tokens[i + 1]
        IN  IF direct_pretoken(tok).pt # "None" THEN
                preprocess_loop(tokens, i + 1, Append(result, direct_pretoken(tok)))
            ELSE
                LET group == extend_group(tokens, i, <<tok>>)
                    before_last == {k \in 1..(Len(group) - 1) : is_typed(group[k].kind)}
                IN  IF Len(group) = 1 THEN
                        preprocess_loop(tokens, i + 1, Append(result, PreOne("Single", group[1])))
                    ELSE IF before_last # {} THEN
                        LET illegal == group[Min(before_last)]
                        IN  [res |-> "Err",
                             error |-> InvalidVectorLiteralError(
                                 illegal.offset, illegal.offset + StrLen(illegal.origin))]
                    ELSE
                        preprocess_loop(tokens, i + Len(group),
                            Append(result, PreVector(group, group_elem_type(group))))

\* preprocess (parse.rs 50-109)
preprocess(input) ==
    LET tokens == collect(input, input, 0, NoneItem, <<>>)
    IN  IF tokens.res = "Err" THEN tokens
        ELSE preprocess_loop(tokens.tokens, 0, <<>>)

(***************************************************************************)
(* Second: seconds since midnight (qtype/chrono.rs).                       *)
(***************************************************************************)
I32_MAX == 2147483647

MAX_SECONDS == I32_MAX - 1
MIN_SECONDS == -I32_MAX + 1

DigitChars == <<"0", "1", "2", "3", "4", "5", "6", "7", "8", "9">>

\* The decimal digits of n >= 0.
RECURSIVE Decimal(_)
Decimal(n) ==
    IF n < 10 THEN <<DigitChars[n + 1]>>
    ELSE Decimal(n \div 10) \o <<DigitChars[(n % 10) + 1]>>

RECURSIVE ZeroPad(_, _)
ZeroPad(s, width) == IF Len(s) >= width THEN s ELSE ZeroPad(<<"0">> \o s, width)

\* format!("{:02}", n) of an i32: the sign, then zeros up to two characters in all.
Fmt02(n) ==
    IF n < 0 THEN <<"-">> \o ZeroPad(Decimal(-n), 1)
    ELSE ZeroPad(Decimal(n), 2)

\* The value of a digit character.
DigitValue(c) == CHOOSE d \in 0..9 : DigitChars[d + 1] = c

RECURSIVE DigitsValue(_, _)
DigitsValue(s, acc) ==
    IF s = <<>> THEN acc ELSE DigitsValue(Tail(s), 10 * acc + DigitValue(Head(s)))

\* str::parse::<i32>: an optional sign, then one or more digits.
ParseI32(s) ==
    LET signed == s # <<>> /\ Head(s) \in {"+", "-"}
        body == IF signed THEN Tail(s) ELSE s
    IN  IF body = <<>> \/ \E i \in 1..Len(body) : body[i] \notin Digits
        THEN [ok |-> FALSE, val |-> 0]
        ELSE [ok |-> TRUE,
              val |-> IF signed /\ Head(s) = "-" THEN -DigitsValue(body, 0)
                      ELSE DigitsValue(body, 0)]

\* Second::from_i32 (chrono.rs 864-867): the assertion fails outside the range.
Second_from_i32(seconds) ==
    IF MIN_SECONDS <= seconds /\ seconds <= MAX_SECONDS
    THEN [res |-> "Ok", seconds |-> seconds]
    ELSE [res |-> "Panic"]

\* Second::to_literal (chrono.rs 856-862); rem_euclid is % for a positive divisor.
Second_to_literal(seconds) ==
    LET total_secs == seconds % 86400
        hours == total_secs \div 3600
        mins == (total_secs % 3600) \div 60
        secs == total_secs % 60
    IN  Fmt02(hours) \o <<":">> \o Fmt02(mins) \o <<":">> \o Fmt02(secs)

\* Second::from_literal (chrono.rs 838-854)
Second_from_literal(literal) ==
    IF StrLen(literal) # 8 \/ AsBytes(literal)[3] # ":" \/ AsBytes(literal)[6] # ":"
    THEN [res |-> "Err"]
    ELSE
        LET hours == ParseI32(SubSeq(literal, 1, 2))
            mins == ParseI32(SubSeq(literal, 4, 5))
            secs == ParseI32(SubSeq(literal, 7, 8))
        IN  IF ~hours.ok \/ ~mins.ok \/ ~secs.ok THEN [res |-> "Err"]
            ELSE IF ~(0 <= hours.val /\ hours.val < 24)
                    \/ ~(0 <= mins.val /\ mins.val < 60)
                    \/ ~(0 <= secs.val /\ secs.val < 60)
            THEN [res |-> "Err"]
            ELSE Second_from_i32(hours.val * 3600 + mins.val * 60 + secs.val)

\* Rust's / on integers truncates towards zero (b > 0 here); a % b is then
\* a - b * (a / b).
RustDiv(a, b) == IF a >= 0 THEN a \div b ELSE -((-a) \div b)

MAX_MINUTES == I32_MAX - 1
MIN_MINUTES == -I32_MAX + 1

\* Minute::from_i32 (chrono.rs 730-733): the assertion fails outside the range.
Minute_from_i32(minutes) ==
    IF MIN_MINUTES <= minutes /\ minutes <= MAX_MINUTES
    THEN [res |-> "Ok", minutes |-> minutes]
    ELSE [res |-> "Panic"]

\* Minute::to_literal (chrono.rs 723-728): the count is not reduced.
Minute_to_literal(minutes) ==
    LET hours == RustDiv(minutes, 60)
        mins == (minutes - 60 * RustDiv(minutes, 60))
    IN  Fmt02(hours) \o <<":">> \o Fmt02(mins)

\* Minute::from_literal (chrono.rs 706-721)
Minute_from_literal(literal) ==
    IF StrLen(literal) # 5 \/ AsBytes(literal)[3] # ":"
    THEN [res |-> "Err"]
    ELSE
        LET hours == ParseI32(SubSeq(literal, 1, 2))
            mins == ParseI32(SubSeq(literal, 4, 5))
        IN  IF ~hours.ok \/ ~mins.ok THEN [res |-> "Err"]
            ELSE IF ~(0 <= hours.val /\ hours.val < 24)
                    \/ ~(0 <= mins.val /\ mins.val < 60)
            THEN [res |-> "Err"]
            ELSE Minute_from_i32(hours.val * 60 + mins.val)

\* format!("{:0w}", n) of an integer: the sign, then zeros up to w characters
\* in all.
FmtZero(n, w) ==
    IF n < 0 THEN <<"-">> \o ZeroPad(Decimal(-n), w - 1)
    ELSE ZeroPad(Decimal(n), w)

\* str::parse::<u32>: an optional +, then one or more digits.
ParseU32(s) ==
    LET signed == s # <<>> /\ Head(s) = "+"
        body == IF signed THEN Tail(s) ELSE s
    IN  IF body = <<>> \/ \E i \in 1..Len(body) : body[i] \notin Digits
        THEN [ok |-> FALSE, val |-> 0]
        ELSE [ok |-> TRUE, val |-> DigitsValue(body, 0)]

MAX_MONTHS == 95999
MIN_MONTHS == -23988

\* Month::from_i32 (chrono.rs 400-403): the assertion fails outside the range.
Month_from_i32(months) ==
    IF MIN_MONTHS <= months /\ months <= MAX_MONTHS
    THEN [res |-> "Ok", months |-> months]
    ELSE [res |-> "Panic"]

\* The mutant of Month::to_literal that prints the month of the year from 0.
Month_to_literal_ZeroBased(months) ==
    LET total_months == months + (2000 * 12)
        year == RustDiv(total_months, 12)
        month == (total_months - 12 * RustDiv(total_months, 12))
    IN  FmtZero(year, 4) \o <<".">> \o Fmt02(month) \o <<"m">>

\* Month::to_literal (chrono.rs 383-388)
Month_to_literal(months) ==
    LET total_months == months + (2000 * 12)
        year == RustDiv(total_months, 12)
        month == (total_months - 12 * RustDiv(total_months, 12)) + 1
    IN  FmtZero(year, 4) \o <<".">> \o Fmt02(month) \o <<"m">>

\* Month::from_literal (chrono.rs 363-380)
Month_from_literal(literal) ==
    IF StrLen(literal) # 8 \/ literal[Len(literal)] # "m" \/ AsBytes(literal)[5] # "."
    THEN [res |-> "Err"]
    ELSE
        LET year == ParseU32(SubSeq(literal, 1, 4))
            month == ParseI32(SubSeq(literal, 6, 7))
        IN  IF ~year.ok \/ ~month.ok THEN [res |-> "Err"]
            ELSE IF ~(1 <= month.val /\ month.val <= 12) THEN [res |-> "Err"]
            ELSE Month_from_i32((year.val - 2000) * 12 + (month.val - 1))

(***************************************************************************)
(* i64 nanosecond counts.  TLC's integers have 32 bits, so a count is kept *)
(* as the record [d, s, n] of the value (d * 86400 + s) * 10^9 + n with    *)
(* 0 <= s < 86400 and 0 <= n < 10^9; every count has one such record.      *)
(***************************************************************************)
NANOS_PER_SEC == 1000000000
SECS_PER_DAY == 86400

\* The count (d * 86400 + s) * 10^9 + n for any integers d, s and n.
Nanos(d, s, n) ==
    LET s1 == s + (n \div NANOS_PER_SEC)
    IN  [d |-> d + (s1 \div SECS_PER_DAY), s |-> s1 % SECS_PER_DAY, n |-> n % NANOS_PER_SEC]

I64Add(a, b) == Nanos(a.d + b.d, a.s + b.s, a.n + b.n)

I64Sub(a, b) == Nanos(a.d - b.d, a.s - b.s, a.n - b.n)

I64Neg(a) == Nanos(-a.d, -a.s, -a.n)

I64Less(a, b) ==
    \/ a.d < b.d
    \/ a.d = b.d /\ a.s < b.s
    \/ a.d = b.d /\ a.s = b.s /\ a.n < b.n

\* i64::MAX = 9223372036854775807 and i64::MIN
I64_MAX == Nanos(106751, 85636, 854775807)
I64_MIN == Nanos(-106751, -85636, -854775808)

\* Timespan::MIN_NANO and MAX_NANO (chrono.rs 502-503); Timestamp's are equal
\* (chrono.rs 172-173).
MIN_NANO == I64Add(I64Neg(I64_MAX), Nanos(0, 0, 1))
MAX_NANO == I64Sub(I64_MAX, Nanos(0, 0, 1))

\* Timespan::from_i64 (chrono.rs 567-569): the count is stored as it is.
Timespan_from_i64(nanoseconds) == [res |-> "Ok", nanoseconds |-> nanoseconds]

\* Timespan::to_literal (chrono.rs 540-561).  The quotient of the absolute
\* count by a day is the record's d, the remainder its s and n; the
\* quotients and remainders by an hour, a minute and a second are those of s.
Timespan_to_literal(nanoseconds) ==
    LET is_negative == I64Less(nanoseconds, Nanos(0, 0, 0))
        abs_nanos == IF is_negative THEN I64Neg(nanoseconds) ELSE nanoseconds
        days == abs_nanos.d
        hours == abs_nanos.s \div 3600
        minutes == (abs_nanos.s % 3600) \div 60
        seconds == (abs_nanos.s % 3600) % 60
        nanos == abs_nanos.n
        sign == IF is_negative THEN <<"-">> ELSE <<>>
    IN  sign \o Decimal(days) \o <<"D">> \o Fmt02(hours) \o <<":">> \o Fmt02(minutes)
            \o <<":">> \o Fmt02(seconds) \o <<".">> \o FmtZero(nanos, 9)

\* \d+ of the regex, on the ASCII digits.
AllDigits(s) == s # <<>> /\ \A i \in 1..Len(s) : s[i] \in Digits

\* TIMESPAN_RE (chrono.rs 498-499): ^(-?\d+)D(\d{2}):(\d{2}):(\d{2})(?:\.(\d{1,9}))?$
\* The first group holds no D, so the D of a match is the first D of the text.
TIMESPAN_RE(literal) ==
    LET hits == {i \in 1..Len(literal) : literal[i] = "D"}
        p == Min(hits)
        days == SubSeq(literal, 1, p - 1)
        clock == SubSeq(literal, p + 1, Len(literal))
        frac == SubSeq(clock, 10, Len(clock))
    IN  IF /\ hits # {}
           /\ AllDigits(IF StartsWith(days, "-") THEN Tail(days) ELSE days)
           /\ Len(clock) >= 8
           /\ AllDigits(SubSeq(clock, 1, 2)) /\ clock[3] = ":"
           /\ AllDigits(SubSeq(clock, 4, 5)) /\ clock[6] = ":"
           /\ AllDigits(SubSeq(clock, 7, 8))
           /\ \/ Len(clock) = 8
              \/ Len(clock) \in 10..18 /\ clock[9] = "." /\ AllDigits(frac)
        THEN [ok |-> TRUE,
              caps |-> <<days, SubSeq(clock, 1, 2), SubSeq(clock, 4, 5), SubSeq(clock, 7, 8)>>,
              frac |-> frac]
        ELSE [ok |-> FALSE, caps |-> <<>>, frac |-> <<>>]

\* format!("{:0<9}", s): zeros on the right up to nine characters.
RECURSIVE PadRight9(_)
PadRight9(s) == IF Len(s) >= 9 THEN s ELSE PadRight9(s \o <<"0">>)

\* Timespan::from_literal (chrono.rs 511-537): the days carry the sign, the
\* hours, minutes, seconds and nanoseconds are added to them.  parse::<i64>
\* reads a sign and digits as parse::<i32> does; the texts of the model have
\* at most nine digits.
Timespan_from_literal(literal) ==
    LET m == TIMESPAN_RE(literal)
    IN  IF ~m.ok THEN [res |-> "Err"]
        ELSE
            LET days == ParseI32(m.caps[1])
                hours == ParseI32(m.caps[2])
                minutes == ParseI32(m.caps[3])
                seconds == ParseI32(m.caps[4])
                nanos == IF m.frac = <<>> THEN 0
                         ELSE LET v == ParseI32(SubSeq(PadRight9(m.frac), 1, 9))
                              IN  IF v.ok THEN v.val ELSE 0
                nanoseconds == Nanos(days.val,
                                     hours.val * 3600 + minutes.val * 60 + seconds.val,
                                     nanos)
            IN  IF ~days.ok \/ ~hours.ok \/ ~minutes.ok \/ ~seconds.ok THEN [res |-> "Err"]
                ELSE IF ~I64Less(nanoseconds, MIN_NANO) /\ ~I64Less(MAX_NANO, nanoseconds)
                THEN [res |-> "Ok", nanoseconds |-> nanoseconds]
                ELSE [res |-> "Panic"]

\* Timestamp::from_i64 (chrono.rs 224-226): the count is stored as it is.
Timestamp_from_i64(nanoseconds) == [res |-> "Ok", nanoseconds |-> nanoseconds]

MAX_DAYS == 2921939
MIN_DAYS == -730119

\* Date::from_i32 (chrono.rs 61-64): the assertion is on the half-open range
\* MIN_DAYS..MAX_DAYS.
Date_from_i32(days) ==
    IF MIN_DAYS <= days /\ days < MAX_DAYS
    THEN [res |-> "Ok", days |-> days]
    ELSE [res |-> "Panic"]

(***************************************************************************)
(* Integer arithmetic of the operators.  An overflow panics in a build     *)
(* with overflow checks ("debug") and wraps in one without ("release").    *)
(***************************************************************************)
I32_MIN == -I32_MAX - 1

\* a + b modulo 2^32.
I32WrapAdd(a, b) ==
    IF b > 0 /\ a > I32_MAX - b THEN (a - I32_MAX - 1) + (b - I32_MAX - 1)
    ELSE IF b < 0 /\ a < I32_MIN - b THEN (a + I32_MAX + 1) + (b + I32_MAX + 1)
    ELSE a + b

\* a + b on i32 in the given build.
I32Add(a, b, build) ==
    IF ((b > 0 /\ a > I32_MAX - b) \/ (b < 0 /\ a < I32_MIN - b)) /\ build = "debug"
    THEN [res |-> "Panic"]
    ELSE [res |-> "Ok", val |-> I32WrapAdd(a, b)]

\* a - b on i32 in the given build.
I32Sub(a, b, build) ==
    IF ((b < 0 /\ a > I32_MAX + b) \/ (b > 0 /\ a < I32_MIN + b)) /\ build = "debug"
    THEN [res |-> "Panic"]
    ELSE [res |-> "Ok", val |-> I32WrapAdd(a, IF b = I32_MIN THEN I32_MIN ELSE -b)]

\* a * 60 on i32 in the given build; modulo 2^32 it is (16a - a) * 4.
I32Mul60(a, build) ==
    LET Dbl(x) == I32WrapAdd(x, x)
        a15 == I32WrapAdd(Dbl(Dbl(Dbl(Dbl(a)))), IF a = I32_MIN THEN I32_MIN ELSE -a)
    IN  IF (a > I32_MAX \div 60 \/ a < -(I32_MAX \div 60)) /\ build = "debug"
        THEN [res |-> "Panic"]
        ELSE [res |-> "Ok", val |-> Dbl(Dbl(a15))]

\* The count modulo 2^64, in [i64::MIN, i64::MAX].
RECURSIVE I64Wrap(_)
I64Wrap(v) ==
    LET two_64 == I64Add(I64Add(I64_MAX, I64_MAX), Nanos(0, 0, 2))
    IN  IF I64Less(I64_MAX, v) THEN I64Wrap(I64Sub(v, two_64))
        ELSE IF I64Less(v, I64_MIN) THEN I64Wrap(I64Add(v, two_64))
        ELSE v

\* The result of i64 arithmetic whose exact value is v, in the given build.
I64Checked(v, build) ==
    IF (I64Less(I64_MAX, v) \/ I64Less(v, I64_MIN)) /\ build = "debug"
    THEN [res |-> "Panic"]
    ELSE [res |-> "Ok", val |-> I64Wrap(v)]

\* minutes as i64 * 60_000_000_000, exact.
MinutesAsNanos(minutes) == Nanos(minutes \div 1440, (minutes % 1440) * 60, 0)

(***************************************************************************)
(* The symbol interner (symbol.rs).  A rodeo is the sequence of the texts  *)
(* interned so far; a key is a text's position in it.                      *)
(***************************************************************************)
\* ThreadedRodeo::get_or_intern: the key of the text if the rodeo holds it,
\* else the key of a new entry for it.
get_or_intern(strings, literal) ==
    IF \E k \in 1..Len(strings) : strings[k] = literal
    THEN [key |-> CHOOSE k \in 1..Len(strings) : strings[k] = literal, strings |-> strings]
    ELSE [key |-> Len(strings) + 1, strings |-> Append(strings, literal)]

\* ThreadedRodeo::resolve: the text of the key; it panics on a key that the
\* rodeo does not hold.
resolve(strings, key) ==
    IF key \in 1..Len(strings) THEN [res |-> "Ok", text |-> strings[key]]
    ELSE [res |-> "Panic"]

\* The mutant of INTERNER that is one rodeo per thread (a thread_local).
INTERNER_ThreadLocal(thread) == thread

\* static INTERNER (symbol.rs 8): the rodeo a thread reaches, one for the
\* process, numbered 0.
INTERNER(thread) == 0

\* The mutant of Symbol::from that interns in a rodeo made for the call.
Symbol_from_Fresh(rodeos, thread, literal) ==
    [sym |-> get_or_intern(<<>>, literal).key, rodeos |-> rodeos]

\* Symbol::from (symbol.rs 11-13), called on a thread: the Symbol and the
\* rodeos after the call.
Symbol_from(rodeos, thread, literal) ==
    LET made == get_or_intern(rodeos[INTERNER(thread)], literal)
    IN  [sym |-> made.key,
         rodeos |-> [rodeos EXCEPT ![INTERNER(thread)] = made.strings]]

\* Symbol::resolve (symbol.rs 15-17), called on a thread.
Symbol_resolve(rodeos, thread, sym) == resolve(rodeos[INTERNER(thread)], sym)

(***************************************************************************)
(* The inputs the specifications draw from.                                *)
(***************************************************************************)
\* All texts over the alphabet A of at most n characters.
StrOver(A, n) == UNION {[1..k -> A] : k \in 0..n}

\* Numeric literals, their suffixes and separators.
NumAlphabet == {"1", ".", ":", "n", "h", " "}

\* The characters that start the Lexer's other arms, and its errors.
MixAlphabet == {"1", "h", " ", "_", "\"", Backtick, "U+00E9"}

\* The texts of the examples, and texts around the characters that start
\* the arms of the loop of next: the slash, the string, the verb glyphs,
\* the hex literal.
ExampleInputs ==
    { <<"4","2"," ","4","3"," ","4","4","j">>,
      <<"4","2","h"," ","4","3">>,
      <<"4","2","h","4","3">>,
      <<"1","2",":","3","4",".","5"," ","1">>,
      <<"1"," ","/","c","\n","2">>,
      <<"1"," ","/","c","\n","2","\\","3">>,
      <<"1"," ","\"","\\","\"">>,
      <<"1","U+000B","/","c">>,
      <<"1","U+00A0","/",":">>,
      <<Backtick,":","a","/","b">>,
      <<Backtick,"a",":","_","9",Backtick,"_","a"," ","1">> }
    \cup StrOver({"/", " ", ":", "1"}, MaxLen)
    \cup {<<"\"">> \o t : t \in StrOver({"\"", "\\", "a", "U+00E9"}, MaxLen)}
    \cup {<<g>> \o t : g \in VerbGlyphs,
                          t \in {<<>>, <<":">>, <<"=">>, <<">">>, <<":", ":">>,
                                 <<":", ">", "=">>, <<" ", ":">>}}
    \cup {<<g, h>> : g \in VerbGlyphs, h \in VerbGlyphs}
    \cup {<<"0", "x">> \o h \o t : h \in StrOver({"a", "9"}, MaxLen + 1),
                                  t \in {<<>>, <<"g">>, <<" ", "0", "x">>}}

Inputs == StrOver(NumAlphabet, MaxLen) \cup StrOver(MixAlphabet, MaxLen)
              \cup ExampleInputs

NotRun == [res |-> "NotRun"]
Idle == [res |-> "Idle"]

\* Lexer::new (lex.rs 357-364), on each input.
InitLexer ==
    /\ whole \in Inputs
    /\ rest = whole
    /\ byte = 0
    /\ peeked = NoneItem
    /\ out = <<>>
    /\ ret = [op |-> "new", item |-> NoneItem]
    /\ prior = [op |-> "new", item |-> NoneItem]

(***************************************************************************)
(* Spec: one Lexer, pulled with next and peek in any order.                *)
(***************************************************************************)
Init ==
    /\ InitLexer
    /\ pre = NotRun
    /\ cls_in = Idle /\ cls_out = Idle
    /\ tv = Idle /\ lit = Idle /\ back = Idle

\* A call of Lexer::next.
LexerNext ==
    /\ Len(out) < MaxCalls
    /\ LET n == Lexer_next(whole, rest, byte, peeked)
       IN  /\ rest' = n.rest
           /\ byte' = n.byte
           /\ peeked' = n.peeked
           /\ out' = Append(out, n.item)
           /\ ret' = [op |-> "next", item |-> n.item]
           /\ prior' = ret
    /\ UNCHANGED <<whole, pre, cls_in, cls_out, tv, lit, back>>

\* A call of Lexer::peek.
LexerPeek ==
    /\ LET n == Lexer_peek(whole, rest, byte, peeked)
       IN  /\ rest' = n.rest
           /\ byte' = n.byte
           /\ peeked' = n.peeked
           /\ ret' = [op |-> "peek", item |-> n.item]
           /\ prior' = ret
    /\ UNCHANGED <<whole, out, pre, cls_in, cls_out, tv, lit, back>>

Next == LexerNext \/ LexerPeek

Spec == Init /\ [][Next]_vars

(***************************************************************************)
(* SpecPre: preprocess called on each input.                               *)
(***************************************************************************)
\* A call of preprocess(whole); it makes its own Lexer.
Preprocess ==
    /\ pre = NotRun
    /\ pre' = preprocess(whole)
    /\ UNCHANGED <<whole, rest, byte, peeked, out, ret, prior, cls_in, cls_out, tv, lit, back>>

NextPre == Preprocess

SpecPre == Init /\ [][NextPre]_vars

(***************************************************************************)
(* SpecClassify: the classifier called on each literal text and suffix.    *)
(***************************************************************************)
\* Texts over the characters that decide the shape, and a letter that does
\* not; InitClassify adds texts of the Timespan forms, with and without days.
BodyAlphabet == {"1", ".", ":", "D", "n"}

\* The characters handed to from_suffix: the letters, and some others.
SuffixInputs == Lower \cup {"J", "N", "0", "NUL", " ", "U+00E9"}

Offsets == {0, 3}

InitClassify ==
    /\ whole = <<>> /\ rest = <<>> /\ byte = 0 /\ peeked = NoneItem
    /\ out = <<>> /\ ret = [op |-> "new", item |-> NoneItem]
    /\ prior = [op |-> "new", item |-> NoneItem]
    /\ pre = NotRun
    /\ \/ \E t \in StrOver(BodyAlphabet, MaxText)
                   \cup {d \o <<"1", "2", ":", "3", "4", ":", "5", "6">> \o f :
                            d \in {<<>>, <<"0", "D">>, <<"4", "7", "8", "5", "D">>},
                            f \in {<<>>, <<".", "1">>,
                                   <<".", "1", "2", "3", "4", "5", "6", "7", "8", "9">>}},
              o \in Offsets :
             cls_in = [fn |-> "parse_untyped", origin |-> t, offset |-> o]
       \/ \E c \in SuffixInputs : cls_in = [fn |-> "from_suffix", c |-> c]
    /\ cls_out = Idle
    /\ tv = Idle /\ lit = Idle /\ back = Idle

\* A call of Numerical::parse_untyped.
ParseUntyped ==
    /\ cls_out = Idle
    /\ cls_in.fn = "parse_untyped"
    /\ cls_out' = parse_untyped(cls_in.origin, cls_in.offset)
    /\ UNCHANGED <<whole, rest, byte, peeked, out, ret, prior, pre, cls_in, tv, lit, back>>

\* A call of Numerical::from_suffix.
FromSuffix ==
    /\ cls_out = Idle
    /\ cls_in.fn = "from_suffix"
    /\ cls_out' = [res |-> "Suffix", kind |-> from_suffix(cls_in.c)]
    /\ UNCHANGED <<whole, rest, byte, peeked, out, ret, prior, pre, cls_in, tv, lit, back>>

\* A call of Timespan::from_literal (chrono.rs 511-537) on a text that
\* parse_untyped has tagged Timespan.
TimespanFromTagged ==
    /\ cls_out = [res |-> "Ok", kind |-> "Timespan"]
    /\ back = Idle
    /\ back' = Timespan_from_literal(cls_in.origin)
    /\ UNCHANGED <<whole, rest, byte, peeked, out, ret, prior, pre, cls_in, cls_out, tv, lit>>

NextClassify == ParseUntyped \/ FromSuffix \/ TimespanFromTagged

SpecClassify == InitClassify /\ [][NextClassify]_vars

(***************************************************************************)
(* SpecTemporal: a temporal value formatted and parsed back.               *)
(***************************************************************************)
\* The values a round trip starts from.  Second and Minute counts around
\* zero, an hour (a minute), a day and the two ends of the range; Timespans
\* around zero and a second, a minute, an hour and a day of both signs, and
\* at the two ends; every Month of [Month::MIN, Month::MAX].
TemporalInputs ==
    [Second |-> UNION {(c - SecSpan)..(c + SecSpan) : c \in {0, 3600, 86400, -86400}}
                    \cup (MIN_SECONDS..(MIN_SECONDS + SecSpan))
                    \cup ((MAX_SECONDS - SecSpan)..MAX_SECONDS),
     Minute |-> UNION {(c - SecSpan)..(c + SecSpan) : c \in {0, 60, 1440, -1440}}
                    \cup (MIN_MINUTES..(MIN_MINUTES + SecSpan))
                    \cup ((MAX_MINUTES - SecSpan)..MAX_MINUTES),
     Timespan |->
         LET centres ==
                 {Nanos(0, 0, 0), Nanos(0, 1, 0), Nanos(0, 60, 0), Nanos(0, 3600, 0),
                  Nanos(1, 0, 0), Nanos(0, -1, 0), Nanos(0, -60, 0), Nanos(0, -3600, 0),
                  Nanos(-1, 0, 0)}
         IN  {I64Add(c, Nanos(0, 0, k)) : c \in centres, k \in (-SecSpan)..SecSpan}
                 \cup {I64Add(MIN_NANO, Nanos(0, 0, k)) : k \in 0..SecSpan}
                 \cup {I64Sub(MAX_NANO, Nanos(0, 0, k)) : k \in 0..SecSpan},
     Month |-> MIN_MONTHS..MAX_MONTHS]

InitTemporal ==
    /\ whole = <<>> /\ rest = <<>> /\ byte = 0 /\ peeked = NoneItem
    /\ out = <<>> /\ ret = [op |-> "new", item |-> NoneItem]
    /\ prior = [op |-> "new", item |-> NoneItem]
    /\ pre = NotRun
    /\ cls_in = Idle /\ cls_out = Idle
    /\ \/ \E x \in TemporalInputs.Second :
              tv = [type |-> "Second", val |-> Second_from_i32(x).seconds]
       \/ \E x \in TemporalInputs.Minute :
              tv = [type |-> "Minute", val |-> Minute_from_i32(x).minutes]
       \/ \E x \in TemporalInputs.Timespan :
              tv = [type |-> "Timespan", val |-> Timespan_from_i64(x).nanoseconds]
       \/ \E x \in TemporalInputs.Month :
              tv = [type |-> "Month", val |-> Month_from_i32(x).months]
    /\ lit = Idle
    /\ back = Idle

\* Second::to_literal on the value.
SecondToLiteral ==
    /\ tv.type = "Second"
    /\ lit = Idle
    /\ lit' = [res |-> "Lit", text |-> Second_to_literal(tv.val)]
    /\ UNCHANGED <<whole, rest, byte, peeked, out, ret, prior, pre, cls_in, cls_out, tv, back>>

\* Second::from_literal on the text that to_literal gave.
SecondFromLiteral ==
    /\ tv.type = "Second"
    /\ lit # Idle
    /\ back = Idle
    /\ back' = Second_from_literal(lit.text)
    /\ UNCHANGED <<whole, rest, byte, peeked, out, ret, prior, pre, cls_in, cls_out, tv, lit>>

\* Minute::to_literal on the value.
MinuteToLiteral ==
    /\ tv.type = "Minute"
    /\ lit = Idle
    /\ lit' = [res |-> "Lit", text |-> Minute_to_literal(tv.val)]
    /\ UNCHANGED <<whole, rest, byte, peeked, out, ret, prior, pre, cls_in, cls_out, tv, back>>

\* Minute::from_literal on the text that to_literal gave.
MinuteFromLiteral ==
    /\ tv.type = "Minute"
    /\ lit # Idle
    /\ back = Idle
    /\ back' = Minute_from_literal(lit.text)
    /\ UNCHANGED <<whole, rest, byte, peeked, out, ret, prior, pre, cls_in, cls_out, tv, lit>>

\* Timespan::to_literal on the value.
TimespanToLiteral ==
    /\ tv.type = "Timespan"
    /\ lit = Idle
    /\ lit' = [res |-> "Lit", text |-> Timespan_to_literal(tv.val)]
    /\ UNCHANGED <<whole, rest, byte, peeked, out, ret, prior, pre, cls_in, cls_out, tv, back>>

\* Timespan::from_literal on the text that to_literal gave.
TimespanFromLiteral ==
    /\ tv.type = "Timespan"
    /\ lit # Idle
    /\ back = Idle
    /\ back' = Timespan_from_literal(lit.text)
    /\ UNCHANGED <<whole, rest, byte, peeked, out, ret, prior, pre, cls_in, cls_out, tv, lit>>

\* Month::to_literal on the value.
MonthToLiteral ==
    /\ tv.type = "Month"
    /\ lit = Idle
    /\ lit' = [res |-> "Lit", text |-> Month_to_literal(tv.val)]
    /\ UNCHANGED <<whole, rest, byte, peeked, out, ret, prior, pre, cls_in, cls_out, tv, back>>

\* Month::from_literal on the text that to_literal gave.
MonthFromLiteral ==
    /\ tv.type = "Month"
    /\ lit # Idle
    /\ back = Idle
    /\ back' = Month_from_literal(lit.text)
    /\ UNCHANGED <<whole, rest, byte, peeked, out, ret, prior, pre, cls_in, cls_out, tv, lit>>

NextTemporal ==
    \/ SecondToLiteral \/ SecondFromLiteral
    \/ MinuteToLiteral \/ MinuteFromLiteral
    \/ TimespanToLiteral \/ TimespanFromLiteral
    \/ MonthToLiteral \/ MonthFromLiteral

SpecTemporal == InitTemporal /\ [][NextTemporal]_vars

(***************************************************************************)
(* The constructors from a raw count (SpecConstruct).                      *)
(***************************************************************************)
\* The arguments: i64 counts around zero and at the two ends of i64, which
\* hold the ends of [MIN_NANO, MAX_NANO]; i32 counts around zero, around
\* MIN_DAYS and MAX_DAYS, and at the two ends of i32.
InitConstruct ==
    /\ whole = <<>> /\ rest = <<>> /\ byte = 0 /\ peeked = NoneItem
    /\ out = <<>> /\ ret = [op |-> "new", item |-> NoneItem]
    /\ prior = [op |-> "new", item |-> NoneItem]
    /\ pre = NotRun
    /\ cls_in = Idle /\ cls_out = Idle
    /\ \/ \E k \in (-SecSpan)..SecSpan : tv = [type |-> "i64", val |-> Nanos(0, 0, k)]
       \/ \E k \in 0..SecSpan :
              \/ tv = [type |-> "i64", val |-> I64Add(I64_MIN, Nanos(0, 0, k))]
              \/ tv = [type |-> "i64", val |-> I64Sub(I64_MAX, Nanos(0, 0, k))]
              \/ tv = [type |-> "i32", val |-> I32_MIN + k]
              \/ tv = [type |-> "i32", val |-> I32_MAX - k]
       \/ \E c \in {0, MIN_DAYS, MAX_DAYS} : \E k \in (-SecSpan)..SecSpan :
              tv = [type |-> "i32", val |-> c + k]
    /\ lit = Idle
    /\ back = Idle

\* Timespan::from_i64 on the argument.
TimespanFromI64 ==
    /\ tv.type = "i64"
    /\ back = Idle
    /\ back' = [fn |-> "Timespan::from_i64", made |-> Timespan_from_i64(tv.val)]
    /\ UNCHANGED <<whole, rest, byte, peeked, out, ret, prior, pre, cls_in, cls_out, tv, lit>>

\* Timestamp::from_i64 on the argument.
TimestampFromI64 ==
    /\ tv.type = "i64"
    /\ back = Idle
    /\ back' = [fn |-> "Timestamp::from_i64", made |-> Timestamp_from_i64(tv.val)]
    /\ UNCHANGED <<whole, rest, byte, peeked, out, ret, prior, pre, cls_in, cls_out, tv, lit>>

\* Date::from_i32 on the argument.
DateFromI32 ==
    /\ tv.type = "i32"
    /\ back = Idle
    /\ back' = [fn |-> "Date::from_i32", made |-> Date_from_i32(tv.val)]
    /\ UNCHANGED <<whole, rest, byte, peeked, out, ret, prior, pre, cls_in, cls_out, tv, lit>>

NextConstruct == TimespanFromI64 \/ TimestampFromI64 \/ DateFromI32

SpecConstruct == InitConstruct /\ [][NextConstruct]_vars

(***************************************************************************)
(* SpecArith: + and - applied to constructed temporal values, and the     *)
(* comparisons across types.  The integers added are one unit of either    *)
(* sign, the peers one unit and the greatest value of their type.          *)
(***************************************************************************)
\* The arithmetic starts from MIN, the epoch and MAX of a type.
InitArith ==
    /\ whole = <<>> /\ rest = <<>> /\ byte = 0 /\ peeked = NoneItem
    /\ out = <<>> /\ ret = [op |-> "new", item |-> NoneItem]
    /\ prior = [op |-> "new", item |-> NoneItem]
    /\ pre = NotRun
    /\ cls_in = Idle /\ cls_out = Idle
    /\ \E build \in {"debug", "release"} :
           \/ \E v \in {MIN_DAYS, Date_from_i32(0).days, MAX_DAYS} :
                  tv = [type |-> "Date", val |-> v, ops |-> 0, build |-> build]
           \/ \E v \in {MIN_MINUTES, Minute_from_i32(0).minutes, MAX_MINUTES} :
                  tv = [type |-> "Minute", val |-> v, ops |-> 0, build |-> build]
           \/ \E v \in {MIN_NANO, Timespan_from_i64(Nanos(0, 0, 0)).nanoseconds, MAX_NANO} :
                  tv = [type |-> "Timespan", val |-> v, ops |-> 0, build |-> build]
    /\ lit = Idle
    /\ back = Idle

\* What an operator call leaves: the struct it builds from the computed
\* count, with no check of the range, or no value when the arithmetic
\* panicked.
Arith(fn, type, made) ==
    /\ tv.ops < MaxOps
    /\ tv' = IF made.res = "Panic"
             THEN [type |-> "Panic", val |-> 0, ops |-> tv.ops + 1, build |-> tv.build]
             ELSE [type |-> type, val |-> made.val, ops |-> tv.ops + 1, build |-> tv.build]
    /\ back' = [res |-> "Called", fn |-> fn]
    /\ UNCHANGED <<whole, rest, byte, peeked, out, ret, prior, pre, cls_in, cls_out, lit>>

\* Add<i32> for Date (chrono.rs 124-132): days: self.to_i32() + rhs
DateAddI32 ==
    /\ tv.type = "Date"
    /\ \E rhs \in {-1, 1} :
           Arith("Add<i32> for Date", "Date", I32Add(tv.val, rhs, tv.build))

\* Sub<i32> for Date (chrono.rs 144-152): days: self.to_i32() - rhs
DateSubI32 ==
    /\ tv.type = "Date"
    /\ \E rhs \in {-1, 1} :
           Arith("Sub<i32> for Date", "Date", I32Sub(tv.val, rhs, tv.build))

\* Add<i32> for Minute (chrono.rs 783-791): minutes: self.to_i32() + rhs
MinuteAddI32 ==
    /\ tv.type = "Minute"
    /\ \E rhs \in {-1, 1} :
           Arith("Add<i32> for Minute", "Minute", I32Add(tv.val, rhs, tv.build))

\* Add<i64> for Timespan (chrono.rs 631-639): nanoseconds: self.to_i64() + rhs
TimespanAddI64 ==
    /\ tv.type = "Timespan"
    /\ \E rhs \in {Nanos(0, 0, -1), Nanos(0, 0, 1)} :
           Arith("Add<i64> for Timespan", "Timespan",
                 I64Checked(I64Add(tv.val, rhs), tv.build))

\* Add<Timespan> for Timespan (chrono.rs 681-689):
\* nanoseconds: self.nanoseconds + rhs.nanoseconds
TimespanAddTimespan ==
    /\ tv.type = "Timespan"
    /\ \E rhs \in {Nanos(0, 0, 1), MAX_NANO} :
           Arith("Add<Timespan> for Timespan", "Timespan",
                 I64Checked(I64Add(tv.val, rhs), tv.build))

\* Sub<Timespan> for Timespan (chrono.rs 671-679):
\* nanoseconds: self.nanoseconds - rhs.nanoseconds
TimespanSubTimespan ==
    /\ tv.type = "Timespan"
    /\ \E rhs \in {Nanos(0, 0, 1), MAX_NANO} :
           Arith("Sub<Timespan> for Timespan", "Timespan",
                 I64Checked(I64Sub(tv.val, rhs), tv.build))

\* Add<Second> for Minute (chrono.rs 983-991), a Second:
\* seconds: self.minutes * 60 + rhs.seconds
MinuteAddSecond ==
    /\ tv.type = "Minute"
    /\ \E rhs \in {1, MAX_SECONDS} :
           LET prod == I32Mul60(tv.val, tv.build)
           IN  Arith("Add<Second> for Minute", "Second",
                     IF prod.res = "Panic" THEN prod ELSE I32Add(prod.val, rhs, tv.build))

\* Add<Minute> for Timespan (chrono.rs 1050-1058):
\* nanoseconds: self.nanoseconds + rhs.minutes as i64 * 60_000_000_000
TimespanAddMinute ==
    /\ tv.type = "Timespan"
    /\ \E rhs \in {1, MAX_MINUTES} :
           LET prod == I64Checked(MinutesAsNanos(rhs), tv.build)
           IN  Arith("Add<Minute> for Timespan", "Timespan",
                     IF prod.res = "Panic" THEN prod
                     ELSE I64Checked(I64Add(tv.val, prod.val), tv.build))

\* PartialEq<Second> for Minute (chrono.rs 959-963):
\* self.minutes * 60 == other.seconds
MinuteEqSecond ==
    /\ tv.type = "Minute"
    /\ \E rhs \in {-120, 0, 60, MAX_SECONDS} :
           LET prod == I32Mul60(tv.val, tv.build)
           IN  back' = [res |-> "Called", fn |-> "PartialEq<Second> for Minute", rhs |-> rhs,
                        made |-> IF prod.res = "Panic" THEN prod
                                 ELSE [res |-> "Ok", val |-> prod.val = rhs]]
    /\ UNCHANGED <<whole, rest, byte, peeked, out, ret, prior, pre, cls_in, cls_out, tv, lit>>

\* PartialOrd<Second> for Minute (chrono.rs 971-975):
\* (self.minutes * 60).partial_cmp(&other.seconds)
MinuteCmpSecond ==
    /\ tv.type = "Minute"
    /\ \E rhs \in {-120, 0, 60, MAX_SECONDS} :
           LET prod == I32Mul60(tv.val, tv.build)
           IN  back' = [res |-> "Called", fn |-> "PartialOrd<Second> for Minute", rhs |-> rhs,
                        made |-> IF prod.res = "Panic" THEN prod
                                 ELSE [res |-> "Ok",
                                       val |-> IF prod.val < rhs THEN "Less"
                                               ELSE IF prod.val = rhs THEN "Equal"
                                               ELSE "Greater"]]
    /\ UNCHANGED <<whole, rest, byte, peeked, out, ret, prior, pre, cls_in, cls_out, tv, lit>>

\* PartialEq<Minute> for Timespan (chrono.rs 1025-1029):
\* self.nanoseconds == other.minutes as i64 * 60_000_000_000
TimespanEqMinute ==
    /\ tv.type = "Timespan"
    /\ \E rhs \in {0, 1, MIN_MINUTES, MAX_MINUTES} :
           LET prod == I64Checked(MinutesAsNanos(rhs), tv.build)
           IN  back' = [res |-> "Called", fn |-> "PartialEq<Minute> for Timespan", rhs |-> rhs,
                        made |-> IF prod.res = "Panic" THEN prod
                                 ELSE [res |-> "Ok", val |-> tv.val = prod.val]]
    /\ UNCHANGED <<whole, rest, byte, peeked, out, ret, prior, pre, cls_in, cls_out, tv, lit>>

NextArith ==
    \/ DateAddI32 \/ DateSubI32 \/ MinuteAddI32
    \/ TimespanAddI64 \/ TimespanAddTimespan \/ TimespanSubTimespan
    \/ MinuteAddSecond \/ TimespanAddMinute
    \/ MinuteEqSecond \/ MinuteCmpSecond \/ TimespanEqMinute

SpecArith == InitArith /\ [][NextArith]_vars

(***************************************************************************)
(* SpecIntern: threads that call Symbol::from and Symbol::resolve.  A call *)
(* is three steps: the thread enters it, the rodeo's operation takes       *)
(* place, the thread leaves it with the result.  out is the history of the *)
(* entries and exits.                                                      *)
(***************************************************************************)
\* The threads of the process.
Threads == {1, 2}

InitIntern ==
    /\ whole = <<>> /\ rest = <<>> /\ byte = 0 /\ peeked = NoneItem
    /\ out = <<>> /\ ret = [op |-> "new", item |-> NoneItem]
    /\ prior = [op |-> "new", item |-> NoneItem]
    /\ pre = NotRun
    /\ cls_in = Idle /\ cls_out = Idle
    /\ tv = [o \in {0} \cup Threads |-> <<>>]
    /\ lit = [t \in Threads |-> [pc |-> "idle", op |-> "none", arg |-> 0, val |-> 0, call |-> 0]]
    /\ back = Idle

\* A thread enters Symbol::from with a text, or Symbol::resolve with a Symbol
\* that some call has returned.
Invoke(t) ==
    /\ lit[t].pc = "idle"
    /\ Cardinality({i \in 1..Len(out) : out[i].ev = "call"}) < MaxOps
    /\ \E c \in [op : {"from"}, arg : {<<"a">>, <<"b">>}]
                    \cup [op : {"resolve"},
                          arg : {out[i].val : i \in {j \in 1..Len(out) :
                                     out[j].ev = "ret" /\ out[j].op = "from"}}] :
           /\ lit' = [lit EXCEPT ![t] = [pc |-> "called", op |-> c.op, arg |-> c.arg,
                                         val |-> 0, call |-> Len(out) + 1]]
           /\ out' = Append(out, [ev |-> "call", t |-> t, op |-> c.op, arg |-> c.arg,
                                  val |-> 0, call |-> Len(out) + 1])
    /\ UNCHANGED <<whole, rest, byte, peeked, ret, prior, pre, cls_in, cls_out, tv, back>>

\* INTERNER.get_or_intern(literal) takes place.
SymbolFrom(t) ==
    /\ lit[t].pc = "called" /\ lit[t].op = "from"
    /\ LET made == Symbol_from(tv, t, lit[t].arg)
       IN  /\ tv' = made.rodeos
           /\ lit' = [lit EXCEPT ![t].pc = "acted", ![t].val = made.sym]
    /\ UNCHANGED <<whole, rest, byte, peeked, out, ret, prior, pre, cls_in, cls_out, back>>

\* INTERNER.resolve(&self.0) takes place.
SymbolResolve(t) ==
    /\ lit[t].pc = "called" /\ lit[t].op = "resolve"
    /\ lit' = [lit EXCEPT ![t].pc = "acted", ![t].val = Symbol_resolve(tv, t, lit[t].arg)]
    /\ UNCHANGED <<whole, rest, byte, peeked, out, ret, prior, pre, cls_in, cls_out, tv, back>>

\* The thread leaves the call with its result.
Return(t) ==
    /\ lit[t].pc = "acted"
    /\ out' = Append(out, [ev |-> "ret", t |-> t, op |-> lit[t].op, arg |-> lit[t].arg,
                           val |-> lit[t].val, call |-> lit[t].call])
    /\ lit' = [lit EXCEPT ![t].pc = "idle"]
    /\ UNCHANGED <<whole, rest, byte, peeked, ret, prior, pre, cls_in, cls_out, tv, back>>

NextIntern == \E t \in Threads : Invoke(t) \/ SymbolFrom(t) \/ SymbolResolve(t) \/ Return(t)

SpecIntern == InitIntern /\ [][NextIntern]_vars

(***************************************************************************)
(* The Lexer's stream (Spec).                                              *)
(***************************************************************************)
\* The first n items of a Lexer on w that is pulled with next alone.
RECURSIVE NextOnly(_, _, _, _, _)
NextOnly(w, r, b, p, n) ==
    IF n = 0 THEN <<>>
    ELSE LET s == Lexer_next(w, r, b, p)
         IN  <<s.item>> \o NextOnly(w, s.rest, s.byte, s.peeked, n - 1)

\* The 12 suffix letters.
SuffixLetters == {"b", "h", "i", "j", "e", "f", "d", "m", "u", "v", "n", "p"}

\* An item that the numeric arm of next returned: a numeric token or an
\* invalid literal.
IsNumericItem(it) ==
    \/ it.res = "Ok" /\ it.kind.tag \in {"Typed", "Untyped"}
    \/ it.res = "Err" /\ it.err = "InvalidLiteralError"

\* The byte offset at which an item starts.
ItemStart(it) == IF it.res = "Ok" THEN it.offset ELSE it.lo

\* C1: once next has returned an error item, every later call of next on
\* that Lexer returns None, whatever follows the error in the source.
C1_TerminalOnError ==
    \A i \in 1..Len(out) : \A j \in 1..Len(out) :
        (i < j /\ out[i].res = "Err") => out[j].res = "None"

\* C2: a call that follows a peek, peek or next, returns the item that the
\* peek returned, and the items that next returns are those of a Lexer on
\* the same source that is never peeked.
C2_PeekIsLookahead ==
    /\ ret.op # "new" /\ prior.op = "peek" => ret.item = prior.item
    /\ out = NextOnly(whole, whole, 0, NoneItem, Len(out))

\* C2 witness: after a token was pulled, a peek showed a token and the next
\* call of next returned it.
C2_Witness ==
    /\ Len(out) >= 2
    /\ prior.op = "peek" /\ ret.op = "next"
    /\ ret.item.res = "Ok" /\ ret.item = prior.item
    /\ out[Len(out)] = ret.item

\* C3: every token's origin is the source text at its offset, and a later
\* token starts at or after the end of each earlier one; no token is empty,
\* so the offsets increase strictly.
C3_TokensFollowSource ==
    \A i \in 1..Len(out) :
        out[i].res = "Ok" =>
            /\ out[i].origin # <<>>
            /\ out[i].offset + StrLen(out[i].origin) <= StrLen(whole)
            /\ AsBytes(out[i].origin) =
                   SubSeq(AsBytes(whole), out[i].offset + 1,
                          out[i].offset + StrLen(out[i].origin))
            /\ \A j \in (i + 1)..Len(out) :
                   out[j].res = "Ok" =>
                       out[j].offset >= out[i].offset + StrLen(out[i].origin)

\* C3 witness: a literal with a suffix, then a later token, in a source that
\* holds a two-byte character before them.
C3_Witness ==
    /\ Len(out) >= 3
    /\ out[1].res = "Err" /\ out[1].hi = 2
    /\ out[2].res = "Ok" /\ out[2].kind.tag = "Typed" /\ out[2].offset = 2
    /\ out[3].res = "Ok" /\ out[3].offset > out[2].offset

\* C4: a numeric literal body (characters of 0-9 . : D N W n w, after a
\* digit) that one of the 12 suffix letters follows is emitted as one Typed
\* token of that letter's kind, its origin the body and the letter.
C4_SuffixMakesTyped ==
    \A i \in 1..Len(out) :
        IsNumericItem(out[i]) =>
            LET text == SliceFrom(whole, ItemStart(out[i]))
            IN  \A q \in 1..(Len(text) - 1) :
                    ( /\ \A k \in 1..q : text[k] \in NumBody
                      /\ text[q + 1] \in SuffixLetters )
                    => /\ out[i].res = "Ok"
                       /\ out[i].kind = Typed(from_suffix(text[q + 1]))
                       /\ out[i].origin = SubSeq(text, 1, q + 1)

(***************************************************************************)
(* The classifier (SpecClassify).                                          *)
(***************************************************************************)
\* The decision table of the literal's shape: a kind, "ErrHelp" for the
\* error that carries help text, "Err" for the error that carries none.
ShapeOf(t) ==
    LET Ds == {i \in 1..Len(t) : t[i] = "D"}
        colons == {i \in 1..Len(t) : t[i] = ":"}
        dots == {i \in 1..Len(t) : t[i] = "."}
        frac == \E i \in dots : \A j \in colons : j < i
    IN  IF Ds # {} THEN
            IF \E i \in dots : \A d \in Ds : i < d THEN "Timestamp" ELSE "Timespan"
        ELSE IF colons # {} THEN
            CASE Cardinality(colons) = 1 /\ ~frac -> "Minute"
              [] Cardinality(colons) = 1 /\ frac -> "ErrHelp"
              [] Cardinality(colons) = 2 /\ ~frac -> "Second"
              [] Cardinality(colons) = 2 /\ frac -> "Timespan"
              [] OTHER -> "Err"
        ELSE
            CASE Cardinality(dots) = 2 -> "Date"
              [] Cardinality(dots) = 1 -> "Float"
              [] Cardinality(dots) = 0 -> "Long"
              [] OTHER -> "Err"

\* C5: parse_untyped returns what the decision table gives for the text:
\* with a D, Timestamp if a dot stands before the first D, else Timespan;
\* else by the colons and the fraction after the last colon; else by the
\* dots; an error spans [offset, offset + len(text)) and carries help text
\* only for one colon with a fraction.
C5_DecisionTable ==
    (cls_in.fn = "parse_untyped" /\ cls_out # Idle) =>
        LET shape == ShapeOf(cls_in.origin)
        IN  IF shape \in {"Err", "ErrHelp"} THEN
                /\ cls_out.res = "Err"
                /\ cls_out.err = "InvalidLiteralError"
                /\ cls_out.lo = cls_in.offset
                /\ cls_out.hi = cls_in.offset + Len(cls_in.origin)
                /\ (cls_out.help # "None") <=> (shape = "ErrHelp")
            ELSE cls_out = [res |-> "Ok", kind |-> shape]

\* C5 witness: a text with one colon and a fraction, at an offset beyond 0,
\* was rejected with help text.
C5_Witness ==
    /\ cls_in.fn = "parse_untyped" /\ cls_in.offset = 3
    /\ cls_in.origin = <<"1", ":", "1", ".", "1">>
    /\ cls_out # Idle /\ cls_out.res = "Err" /\ cls_out.help # "None"

\* The 12 suffix letters and the 12 kinds, in the order of the table.
SuffixOrder == <<"b", "h", "i", "j", "e", "f", "d", "m", "u", "v", "n", "p">>
KindOrder == <<"Boolean", "Short", "Int", "Long", "Real", "Float", "Date",
               "Month", "Minute", "Second", "Timespan", "Timestamp">>

\* C6: from_suffix gives a kind for exactly the 12 suffix letters, each
\* letter its own kind of the 12, and None for every other character.
C6_SuffixBijection ==
    /\ (cls_in.fn = "from_suffix" /\ cls_out # Idle) =>
           /\ (cls_out.kind # "None") <=> (cls_in.c \in SuffixLetters)
           /\ \A k \in 1..12 : cls_in.c = SuffixOrder[k] => cls_out.kind = KindOrder[k]
    /\ \A c1 \in SuffixLetters : \A c2 \in SuffixLetters :
           from_suffix(c1) = from_suffix(c2) => c1 = c2
    /\ {from_suffix(c) : c \in SuffixLetters} = {KindOrder[k] : k \in 1..12}

\* C6 witness: from_suffix was called on the letter v and on a letter that is
\* no suffix.
C6_Witness ==
    /\ cls_in.fn = "from_suffix" /\ cls_out # Idle
    /\ \/ cls_in.c = "v" /\ cls_out.kind = "Second"
       \/ cls_in.c = "x" /\ cls_out.kind = "None"

(***************************************************************************)
(* preprocess (SpecPre).                                                   *)
(***************************************************************************)
\* Every item of the Lexer's stream on w: an item takes at least one
\* character, so the stream has ended after Len(w) + 1 calls.
Stream(w) == NextOnly(w, w, 0, NoneItem, Len(w) + 1)

\* The tokens of w, when its stream is two or more numeric tokens and
\* nothing else; <<>> otherwise.
NumericRun(w) ==
    LET toks == SelectSeq(Stream(w), LAMBDA it : it.res # "None")
    IN  IF Len(toks) >= 2 /\ \A i \in 1..Len(toks) : (toks[i].res = "Ok" /\ is_numeric(toks[i].kind))
        THEN toks ELSE <<>>

\* C7: preprocess of 42 43 44j is one Vector of the three tokens with
\* elem_type Long; a run of two or more numeric tokens of which only the
\* last may be Typed becomes one Vector with the kind of its last token.
C7_RunBecomesVector ==
    pre # NotRun =>
        /\ whole = <<"4","2"," ","4","3"," ","4","4","j">> =>
               /\ pre.res = "Ok" /\ Len(pre.pretokens) = 1
               /\ pre.pretokens[1].pt = "Vector"
               /\ Len(pre.pretokens[1].tokens) = 3
               /\ pre.pretokens[1].elem_type = "Long"
        /\ LET run == NumericRun(whole)
           IN  (run # <<>> /\ \A i \in 1..(Len(run) - 1) : ~is_typed(run[i].kind)) =>
                   /\ pre.res = "Ok"
                   /\ pre.pretokens = <<PreVector(run, run[Len(run)].kind.arg)>>

\* C8: preprocess of 42h 43 fails with InvalidVectorLiteralError on the span
\* of 42h; when a token before the last of a numeric run is Typed,
\* preprocess fails with that error on the span of the first such token.
C8_TypedBeforeLastFails ==
    pre # NotRun =>
        /\ whole = <<"4","2","h"," ","4","3">> =>
               /\ pre.res = "Err"
               /\ pre.error.err = "InvalidVectorLiteralError"
               /\ pre.error.lo = 0 /\ pre.error.hi = 3
        /\ LET run == NumericRun(whole)
               typed == {i \in 1..(Len(run) - 1) : is_typed(run[i].kind)}
           IN  typed # {} =>
                   /\ pre.res = "Err"
                   /\ pre.error = InvalidVectorLiteralError(
                          run[Min(typed)].offset,
                          run[Min(typed)].offset + StrLen(run[Min(typed)].origin))

\* C9: when the Lexer's stream on the input holds an error, preprocess
\* returns the first error of the stream and no pre-token.
C9_FirstErrorPropagates ==
    pre # NotRun =>
        LET errs == {i \in 1..Len(Stream(whole)) : Stream(whole)[i].res = "Err"}
        IN  errs # {} =>
                /\ pre.res = "Err"
                /\ pre.error = Stream(whole)[Min(errs)]
                /\ DOMAIN pre = {"res", "error"}

\* C9 witness: preprocess returned the Lexer's error that came after a token,
\* with a token after it in the source.
C9_Witness ==
    /\ pre # NotRun /\ pre.res = "Err"
    /\ pre.error.err = "SingleTokenError"
    /\ Len(Stream(whole)) >= 3
    /\ Stream(whole)[1].res = "Ok"
    /\ Stream(whole)[2] = pre.error
    /\ Stream(whole)[3].res = "Ok"

(***************************************************************************)
(* The temporal types (SpecTemporal).                                      *)
(***************************************************************************)
\* C10: for every Second x of [Second::MIN, Second::MAX],
\* from_literal(to_literal(x)) succeeds with x.
C10_SecondRoundTrip ==
    (tv.type = "Second" /\ back # Idle) =>
        back = [res |-> "Ok", seconds |-> tv.val]

\* C11: for every Minute x of [Minute::MIN, Minute::MAX],
\* from_literal(to_literal(x)) succeeds with x.
C11_MinuteRoundTrip ==
    (tv.type = "Minute" /\ back # Idle) =>
        back = [res |-> "Ok", minutes |-> tv.val]

\* C12: for every Timespan x of [Timespan::MIN, Timespan::MAX], the negative
\* ones included, from_literal(to_literal(x)) succeeds with x.
C12_TimespanRoundTrip ==
    (tv.type = "Timespan" /\ back # Idle) =>
        back = [res |-> "Ok", nanoseconds |-> tv.val]

\* C13: for every Month x of [Month::MIN, Month::MAX], to_literal(x) has the
\* eight characters YYYY.MMm, four digits of the year, a dot, two digits of
\* a month of 01..12 and the letter m, and from_literal of it succeeds
\* with x.
C13_MonthRoundTrip ==
    /\ (tv.type = "Month" /\ lit # Idle) =>
           /\ Len(lit.text) = 8
           /\ \A i \in {1, 2, 3, 4, 6, 7} : lit.text[i] \in Digits
           /\ lit.text[5] = "." /\ lit.text[8] = "m"
           /\ DigitsValue(SubSeq(lit.text, 6, 7), 0) \in 1..12
    /\ (tv.type = "Month" /\ back # Idle) =>
           back = [res |-> "Ok", months |-> tv.val]

\* C13 witness: the round trip of Month::MIN, whose text is 0001.01m.
C13_Witness ==
    /\ tv.type = "Month" /\ tv.val = MIN_MONTHS
    /\ lit # Idle /\ lit.text = <<"0", "0", "0", "1", ".", "0", "1", "m">>
    /\ back = [res |-> "Ok", months |-> MIN_MONTHS]

\* C14: Timespan::from_i64(n) and Timestamp::from_i64(n) fail for every n
\* outside [MIN_NANO, MAX_NANO] = [-i64::MAX + 1, i64::MAX - 1]; i64::MAX and
\* -i64::MAX are never made.
C14_ReservedNanosRejected ==
    ( /\ back # Idle
      /\ back.fn \in {"Timespan::from_i64", "Timestamp::from_i64"}
      /\ (I64Less(tv.val, MIN_NANO) \/ I64Less(MAX_NANO, tv.val)) )
    => back.made.res = "Panic"

\* C15: Date::from_i32(n) fails for every n above MAX_DAYS or below MIN_DAYS,
\* and for every n of [MIN_DAYS, MAX_DAYS], both ends included, it succeeds
\* with a Date whose to_i32() is n.
C15_DateFromI32Range ==
    (back # Idle /\ back.fn = "Date::from_i32") =>
        IF MIN_DAYS <= tv.val /\ tv.val <= MAX_DAYS
        THEN back.made.res = "Ok" /\ back.made.days = tv.val
        ELSE back.made.res = "Panic"

\* C16: after any sequence of constructions and of + and - with integers,
\* with values of the same type and with values of the other types, every
\* temporal value lies within [MIN, MAX] of its type.
C16_ValuesStayInRange ==
    /\ tv.type = "Date" => MIN_DAYS <= tv.val /\ tv.val <= MAX_DAYS
    /\ tv.type = "Minute" => MIN_MINUTES <= tv.val /\ tv.val <= MAX_MINUTES
    /\ tv.type = "Second" => MIN_SECONDS <= tv.val /\ tv.val <= MAX_SECONDS
    /\ tv.type = "Timespan" =>
           ~I64Less(tv.val, MIN_NANO) /\ ~I64Less(MAX_NANO, tv.val)

(***************************************************************************)
(* The symbol interner (SpecIntern).                                       *)
(***************************************************************************)
\* The exits of the calls of Symbol::from and of Symbol::resolve in the history.
FromRets == {i \in 1..Len(out) : out[i].ev = "ret" /\ out[i].op = "from"}
ResolveRets == {i \in 1..Len(out) : out[i].ev = "ret" /\ out[i].op = "resolve"}

\* C17: a call of intern returns a handle equal to every handle returned for
\* the same text; different texts never get equal handles; resolve of a
\* handle returns the text it was made for, at every call.
C17_InternerContract ==
    /\ \A i \in FromRets : \A j \in FromRets :
           (out[i].arg = out[j].arg) <=> (out[i].val = out[j].val)
    /\ \A r \in ResolveRets : \A f \in FromRets :
           out[f].val = out[r].arg => out[r].val = [res |-> "Ok", text |-> out[f].arg]

\* C17 witness: two calls for one text returned equal handles, a call for
\* another text a different one, and resolve of the first gave its text.
C17_Witness ==
    \E i \in FromRets : \E j \in FromRets : \E r \in ResolveRets :
        /\ i < j /\ j < r
        /\ out[i].arg # out[j].arg /\ out[i].val # out[j].val
        /\ out[r].arg = out[i].val
        /\ out[r].val = [res |-> "Ok", text |-> out[i].arg]

\* The entries of the calls in the history, and the exit of the call
\* entered at c (0 while it has not returned).
CallsOf == {i \in 1..Len(out) : out[i].ev = "call"}
RetOf(c) ==
    IF \E j \in 1..Len(out) : out[j].ev = "ret" /\ out[j].call = c
    THEN CHOOSE j \in 1..Len(out) : out[j].ev = "ret" /\ out[j].call = c
    ELSE 0

\* The calls of the order s, made one after the other on one rodeo, give
\* the results that the history shows for those that returned.
RECURSIVE Replays(_, _)
Replays(s, strings) ==
    IF s = <<>> THEN TRUE
    ELSE LET c == Head(s)
             e == out[c]
             made == IF e.op = "from" THEN get_or_intern(strings, e.arg)
                     ELSE [key |-> resolve(strings, e.arg), strings |-> strings]
         IN  /\ RetOf(c) # 0 => out[RetOf(c)].val = made.key
             /\ Replays(Tail(s), made.strings)

\* The orders of calls that hold every returned call once, any of the
\* others at most once, and keep a call that returned before another was
\* entered ahead of it.
Linearizations ==
    {s \in UNION {[1..k -> CallsOf] : k \in 0..Cardinality(CallsOf)} :
        /\ \A a \in 1..Len(s) : \A b \in 1..Len(s) : a # b => s[a] # s[b]
        /\ \A c \in CallsOf : RetOf(c) # 0 => \E a \in 1..Len(s) : s[a] = c
        /\ \A a \in 1..Len(s) : \A b \in 1..Len(s) :
               (RetOf(s[a]) # 0 /\ RetOf(s[a]) < s[b]) => a < b}

\* C18: the calls of intern and resolve made from several threads, in any
\* interleaving, are atomic: the results are those of the same calls made
\* one at a time in an order that keeps every call that ended before
\* another began ahead of it.
C18_Linearizable == \E s \in Linearizations : Replays(s, <<>>)

\* C18 witness: two threads were inside intern for the same text at the
\* same time, and both returned the same handle.
C18_Witness ==
    \E c \in CallsOf : \E d \in CallsOf :
        /\ c < d /\ out[c].t # out[d].t
        /\ out[c].op = "from" /\ out[d].op = "from" /\ out[c].arg = out[d].arg
        /\ RetOf(c) > d /\ RetOf(d) # 0
        /\ out[RetOf(c)].val = out[RetOf(d)].val

(***************************************************************************)
(* Strings and comments (Spec).                                            *)
(***************************************************************************)
\* The number of backslashes that stand directly before byte j (counted
\* from 1) of bytes, after the quote at offset lo.
BackslashesBefore(bytes, lo, j) ==
    Cardinality({n \in 1..(j - lo - 2) : \A m \in 1..n : bytes[j - m] = "\\"})

\* The quote at offset lo of bytes has no closing quote: every later quote
\* has an odd number of backslashes directly before it.
Unclosed(bytes, lo) ==
    \A j \in (lo + 2)..Len(bytes) :
        bytes[j] = "\"" => BackslashesBefore(bytes, lo, j) % 2 = 1

\* The whitespace characters at the head of r.
LeadingWhitespace(r) ==
    Cardinality({n \in 1..Len(r) : \A m \in 1..n : IsWhitespace(r[m])})

\* The Lexer, after whitespace only, stands before a quote that nothing closes.
AtUnclosedQuote ==
    /\ peeked = NoneItem
    /\ LeadingWhitespace(rest) < Len(rest)
    /\ rest[LeadingWhitespace(rest) + 1] = "\""
    /\ Unclosed(AsBytes(whole), byte + StrLen(SubSeq(rest, 1, LeadingWhitespace(rest))))

\* C19: a call made when the next character is a quote without an unescaped
\* closing quote returns a StringTerminationError whose span runs from that
\* quote to the end of the source, and leaves nothing unconsumed; every
\* item that next returns after such an error is None.
C19_UnterminatedString ==
    [][ /\ AtUnclosedQuote =>
            /\ ret'.item = StringTerminationError(
                               byte + StrLen(SubSeq(rest, 1, LeadingWhitespace(rest))),
                               StrLen(whole))
            /\ rest' = <<>> /\ byte' = StrLen(whole)
        /\ \A i \in 1..Len(out') : \A j \in 1..Len(out') :
               (i < j /\ out'[i].res = "Err" /\ out'[i].err = "StringTerminationError")
                   => /\ out'[j] = NoneItem
                      /\ rest' = <<>> /\ byte' = StrLen(whole)
                      /\ AsBytes(whole)[out'[i].lo + 1] = "\""
                      /\ Unclosed(AsBytes(whole), out'[i].lo)
                      /\ out'[i].hi = StrLen(whole) ]_vars

\* C19 witness: after a token, a quote followed by an escaped quote gave the
\* error from the quote to the end of the source, and then None.
C19_Witness ==
    /\ whole = <<"1", " ", "\"", "\\", "\"">>
    /\ Len(out) = 3
    /\ out[1].res = "Ok"
    /\ out[2] = StringTerminationError(2, 5)
    /\ out[3] = NoneItem
    /\ rest = <<>> /\ byte = 5

\* The first slash of the source that stands at its start or after
\* whitespace (0 when there is none), and the first newline after it.
FirstComment ==
    LET at == {i \in 1..Len(whole) :
                  whole[i] = "/" /\ (i = 1 \/ IsAsciiWhitespace(whole[i - 1]))}
    IN  IF at = {} THEN 0 ELSE CHOOSE i \in at : \A k \in at : i <= k
LineEnd ==
    LET at == {j \in (FirstComment + 1)..Len(whole) : whole[j] = "\n"}
    IN  IF FirstComment = 0 \/ at = {} THEN 0 ELSE CHOOSE j \in at : \A k \in at : j <= k

\* C20: a comment ends at the end of its line: when the stream of a source
\* without quotes and errors has ended, every token of the text after the
\* newline that ends the first comment's line is in it, at its offset.
C20_CommentEndsAtLineEnd ==
    LET after == SubSeq(whole, LineEnd + 1, Len(whole))
        shift == StrLen(SubSeq(whole, 1, LineEnd))
        later == NextOnly(after, after, 0, NoneItem, Len(after))
    IN  ( /\ LineEnd # 0
          /\ \A i \in 1..Len(whole) : whole[i] # "\""
          /\ out # <<>> /\ out[Len(out)] = NoneItem
          /\ \A i \in 1..Len(out) : out[i].res # "Err" )
        => \A k \in 1..Len(later) :
               later[k].res = "Ok" =>
                   \E m \in 1..Len(out) :
                       out[m] = Token(later[k].origin, later[k].offset + shift, later[k].kind)

\* The byte length of the text of the comment whose slash r1 follows: up
\* to the end of the line, or through a backslash that comes before it.
CommentTextLen(r1) ==
    LET nl == {k \in 1..Len(r1) : r1[k] = "\n"}
        first_nl == IF nl = {} THEN Len(r1) + 1 ELSE CHOOSE k \in nl : \A j \in nl : k <= j
        bs == {k \in 1..(first_nl - 1) : r1[k] = "\\"}
    IN  IF bs = {} THEN StrLen(SubSeq(r1, 1, first_nl - 1))
        ELSE StrLen(SubSeq(r1, 1, CHOOSE k \in bs : \A j \in bs : k <= j))

HexRun(r) ==
    Cardinality({n \in 1..Len(r) : \A m \in 1..n : r[m] \in AsciiHexdigit})

\* A call made when, after whitespace, the input goes on with `0x` returns
\* one token of the prefix and all the hex digits after it, a Byte when
\* these are at most max_byte and a ByteVec when they are more.
HexLiteral(max_byte) ==
    LET lw == LeadingWhitespace(rest)
        p == byte + StrLen(SubSeq(rest, 1, lw))
        run == HexRun(SubSeq(rest, lw + 3, Len(rest)))
    IN  ( /\ peeked = NoneItem /\ lw + 2 <= Len(rest)
          /\ rest[lw + 1] = "0" /\ rest[lw + 2] = "x" )
        => /\ ret'.item = Token(SubSeq(rest, lw + 1, lw + 2 + run), p,
                                IF run <= max_byte THEN K("Byte") ELSE K("ByteVec"))
           /\ byte' = p + 2 + run
           /\ rest' = SubSeq(rest, lw + 3 + run, Len(rest))

\* C22, as stated: a hex literal is one token of the prefix and the whole
\* run of hex digits, a Byte when the run has at most 4 digits and a
\* ByteVec when it has more.
C22_HexByteUpTo4 == [][HexLiteral(4)]_vars

\* C22, amended: a hex literal is one token of the prefix and the whole run
\* of hex digits, a Byte when the literal with its prefix has at most 4
\* bytes (a run of at most 2 digits) and a ByteVec when it has more.
C22_HexByteUpTo2 == [][HexLiteral(2)]_vars

\* C22 witness: a literal of three digits was returned as a ByteVec and the
\* bare prefix after it as a Byte.
C22_Witness ==
    /\ Len(out) >= 2
    /\ out[1] = Token(<<"0", "x", "a", "9", "a">>, 0, K("ByteVec"))
    /\ out[2] = Token(<<"0", "x">>, 6, K("Byte"))

(***************************************************************************)
(* The classifier and the temporal domain (SpecClassify).                  *)
(***************************************************************************)
\* The text is two digits, a colon, two digits, a colon and two digits.
IsClock(s) ==
    /\ Len(s) = 8 /\ s[3] = ":" /\ s[6] = ":"
    /\ \A i \in {1, 2, 4, 5, 7, 8} : s[i] \in Digits

\* The documented forms of a Timespan literal: days, D, a clock and maybe
\* a fraction of up to nine digits; or a clock and such a fraction.
DocumentedTimespan(s) ==
    \E d \in 0..Len(s) : \E f \in 0..9 :
        /\ Len(s) = d + 8 + (IF f = 0 THEN 0 ELSE f + 1)
        /\ d # 0 => /\ d >= 2 /\ s[d] = "D"
                    /\ \A i \in 1..(d - 1) : s[i] \in Digits
        /\ IsClock(SubSeq(s, d + 1, d + 8))
        /\ f # 0 => /\ s[d + 9] = "."
                    /\ \A i \in (d + 10)..Len(s) : s[i] \in Digits
        /\ d = 0 => f # 0

\* C23: a literal text of a documented Timespan form that parse_untyped
\* tags Timespan, the form without days included, is accepted by
\* Timespan::from_literal.
C23_TaggedTimespanParses ==
    ( /\ cls_in.fn = "parse_untyped"
      /\ cls_out = [res |-> "Ok", kind |-> "Timespan"]
      /\ DocumentedTimespan(cls_in.origin)
      /\ back # Idle )
    => back.res = "Ok"

\* The bytes (counted from 1) after the quote at offset lo at which a quote
\* stands that is not escaped.
ClosingQuotes(bytes, lo) ==
    {j \in (lo + 2)..Len(bytes) :
        bytes[j] = "\"" /\ BackslashesBefore(bytes, lo, j) % 2 = 0}

\* C24: a call made when, after whitespace, the input goes on with a quote
\* that has a closing quote returns one token from the quote through the
\* first quote that is not escaped (a backslash escapes the one byte after
\* it), a Char when one byte lies between the quotes and a QString
\* otherwise, and the Lexer goes on right after the closing quote.
C24_StringLiteral ==
    [][ LET lw == LeadingWhitespace(rest)
            p == byte + StrLen(SubSeq(rest, 1, lw))
            closing == ClosingQuotes(AsBytes(whole), p)
            e == CHOOSE j \in closing : \A k \in closing : j <= k
            n == CHOOSE k \in (lw + 1)..Len(rest) : StrLen(SubSeq(rest, lw + 1, k)) = e - p
        IN  ( /\ peeked = NoneItem /\ lw < Len(rest) /\ rest[lw + 1] = "\""
              /\ closing # {} )
            => /\ ret'.item = Token(SubSeq(rest, lw + 1, n), p,
                                    IF e - p = 3 THEN K("Char") ELSE K("QString"))
               /\ byte' = e
               /\ rest' = SubSeq(rest, n + 1, Len(rest)) ]_vars

\* C24 witness: a string of an escaped backslash, closed by the quote after
\* it, then the identifier that follows the closing quote.
C24_Witness ==
    /\ whole = <<"\"", "\\", "\\", "\"", "a">>
    /\ Len(out) >= 2
    /\ out[1] = Token(<<"\"", "\\", "\\", "\"">>, 0, K("QString"))
    /\ out[2] = Token(<<"a">>, 4, K("Identifier"))

\* C25: a call made when, after whitespace, the input goes on with a
\* backtick returns one Symbol token of the backtick and all the ASCII
\* letters, digits, `_` and `:` after it (maybe none), and goes on after
\* them; but when the first of these is `_` it returns a SingleTokenError
\* with a help text whose span is that `_`, and leaves nothing unconsumed.
\* Every item after such an error is None, and no Symbol token starts with
\* a backtick and `_`.
C25_SymbolLiteral ==
    [][ LET lw == LeadingWhitespace(rest)
            p == byte + StrLen(SubSeq(rest, 1, lw))
            body == SubSeq(rest, lw + 2, Len(rest))
            run == Cardinality({n \in 1..Len(body) : \A m \in 1..n :
                                   body[m] \in AsciiAlphanumeric \cup {"_", ":"}})
        IN  /\ (peeked = NoneItem /\ lw < Len(rest) /\ rest[lw + 1] = Backtick) =>
                   IF run > 0 /\ body[1] = "_"
                   THEN /\ ret'.item.res = "Err"
                        /\ ret'.item.err = "SingleTokenError"
                        /\ ret'.item.lo = p + 1 /\ ret'.item.hi = p + 2
                        /\ ret'.item.help # "None"
                        /\ rest' = <<>> /\ byte' = StrLen(whole)
                   ELSE /\ ret'.item = Token(SubSeq(rest, lw + 1, lw + 1 + run), p, K("Symbol"))
                        /\ byte' = p + 1 + run
                        /\ rest' = SubSeq(body, run + 1, Len(body))
            /\ \A i \in 1..Len(out') :
                   /\ (out'[i].res = "Err" /\ out'[i].err = "SingleTokenError"
                           /\ out'[i].help # "None")
                          => \A j \in (i + 1)..Len(out') : out'[j] = NoneItem
                   /\ (out'[i].res = "Ok" /\ out'[i].kind = K("Symbol"))
                          => /\ out'[i].origin[1] = Backtick
                             /\ Len(out'[i].origin) >= 2 => out'[i].origin[2] # "_" ]_vars

\* C25 witness: a Symbol token, then a backtick before `_` gave the error
\* on the `_`, and the call after it None.
C25_Witness ==
    /\ whole = <<Backtick, "h", Backtick, "_">>
    /\ Len(out) = 3
    /\ out[1] = Token(<<Backtick, "h">>, 0, K("Symbol"))
    /\ out[2] = SingleTokenError("_", 3, 4, HelpSymbol)
    /\ out[3] = NoneItem

\* The verb glyphs and the names of their kinds, in the order of the claim.
GlyphOrder == <<".", "@", "$", "!", "?", "+", "-", "*", "%", "=", "~", "<", ">",
                "|", "&", "#", "_", "^", ",">>
GlyphNames == <<"Dot", "At", "Dollar", "Bang", "Query", "Plus", "Minus", "Star",
                "Percent", "Equal", "Tilde", "Less", "Greater", "Pipe", "Ampersand",
                "Hash", "Underscore", "Caret", "Comma">>

\* C26: a call made when, after whitespace, the input goes on with a verb
\* glyph returns the two-byte AssignThrough token of the glyph when a colon
\* follows it; else NotEqual, LessEqual or GreaterEqual for `<>`, `<=`,
\* `>=`; else the token of the glyph alone; and the Lexer advances by the
\* length of the token's origin.
C26_VerbGlyphs ==
    [][ LET lw == LeadingWhitespace(rest)
            p == byte + StrLen(SubSeq(rest, 1, lw))
            g == rest[lw + 1]
            nx == IF lw + 2 <= Len(rest) THEN rest[lw + 2] ELSE "NUL"
        IN  \A k \in 1..19 :
                (peeked = NoneItem /\ lw < Len(rest) /\ g = GlyphOrder[k]) =>
                    LET made ==
                            IF nx = ":"
                            THEN Token(<<g, ":">>, p, AssignThroughKind(GlyphNames[k]))
                            ELSE IF g = "<" /\ nx = ">"
                            THEN Token(<<"<", ">">>, p, K("NotEqual"))
                            ELSE IF g = "<" /\ nx = "="
                            THEN Token(<<"<", "=">>, p, K("LessEqual"))
                            ELSE IF g = ">" /\ nx = "="
                            THEN Token(<<">", "=">>, p, K("GreaterEqual"))
                            ELSE Token(<<g>>, p, K(GlyphNames[k]))
                    IN  /\ ret'.item = made
                        /\ byte' = p + Len(made.origin)
                        /\ rest' = SubSeq(rest, lw + 1 + Len(made.origin), Len(rest)) ]_vars

\* C26 witness: `<:` was returned as the AssignThrough of Less and the `>=`
\* after it as GreaterEqual.
C26_Witness ==
    /\ whole = <<"<", ":", ">", "=">>
    /\ Len(out) >= 2
    /\ out[1] = Token(<<"<", ":">>, 0, AssignThroughKind("Less"))
    /\ out[2] = Token(<<">", "=">>, 2, K("GreaterEqual"))

(***************************************************************************)
(* Comparisons across types (SpecArith).                                   *)
(***************************************************************************)
\* C27: for a valid Minute or Timespan and a valid peer of the other type,
\* equality and ordering are those of the exact counts in the finer unit
\* (60 * m against s, m * 60 * 10^9 against t), and the normalization does
\* not overflow.
C27_CrossTypeComparison ==
    /\ ( /\ back # Idle /\ tv.type = "Minute"
         /\ MIN_MINUTES <= tv.val /\ tv.val <= MAX_MINUTES
         /\ back.fn = "PartialEq<Second> for Minute" )
       => /\ back.made.res = "Ok"
          /\ back.made.val = (back.rhs % 60 = 0 /\ back.rhs \div 60 = tv.val)
    /\ ( /\ back # Idle /\ tv.type = "Minute"
         /\ MIN_MINUTES <= tv.val /\ tv.val <= MAX_MINUTES
         /\ back.fn = "PartialOrd<Second> for Minute" )
       => /\ back.made.res = "Ok"
          /\ back.made.val = IF back.rhs % 60 = 0 /\ back.rhs \div 60 = tv.val THEN "Equal"
                             ELSE IF tv.val <= (back.rhs - 1) \div 60 THEN "Less"
                             ELSE "Greater"
    /\ ( /\ back # Idle /\ tv.type = "Timespan"
         /\ ~I64Less(tv.val, MIN_NANO) /\ ~I64Less(MAX_NANO, tv.val)
         /\ back.fn = "PartialEq<Minute> for Timespan" )
       => /\ back.made.res = "Ok"
          /\ back.made.val = (tv.val = MinutesAsNanos(back.rhs))

(***************************************************************************)
(* Progress of the Lexer (Spec).                                           *)
(***************************************************************************)
\* C28: a call that has input left and no peeked item consumes at least
\* one byte, whatever it returns, and byte and rest stay the two parts of
\* the source; so the items before None are at most as many as the bytes
\* of the source, and the call after that many items returns None.
C28_EveryItemConsumes ==
    [][ /\ (peeked = NoneItem /\ rest # <<>> /\ vars' # vars) =>
               /\ byte' > byte
               /\ StrLen(rest') < StrLen(rest)
        /\ byte' + StrLen(rest') = StrLen(whole)
        /\ (peeked = NoneItem /\ rest = <<>>) => ret'.item = NoneItem
        /\ Cardinality({i \in 1..Len(out') : out'[i] # NoneItem}) <= StrLen(whole)
        /\ Len(out') > StrLen(whole) => out'[StrLen(whole) + 1] = NoneItem ]_vars

\* C28 witness: a source of four bytes gave four tokens, one for each byte,
\* and then None.
C28_Witness ==
    /\ whole = <<".", ".", ".", ".">>
    /\ Len(out) = 5
    /\ \A i \in 1..4 : out[i] = Token(<<".">>, i - 1, K("Dot"))
    /\ out[5] = NoneItem

(***************************************************************************)
(* Grouping (SpecPre).                                                     *)
(***************************************************************************)
\* C29: in the Lexer's stream no numeric token starts at the byte where an
\* Untyped token before it ends, and preprocess, when it succeeds, returns
\* no Vector.
C29_NoVectorReachable ==
    pre # NotRun =>
        /\ \A i \in 1..(Len(Stream(whole)) - 1) :
               LET a == Stream(whole)[i]
                   b == Stream(whole)[i + 1]
               IN  ( /\ a.res = "Ok" /\ a.kind.tag = "Untyped"
                     /\ b.res = "Ok" /\ b.kind.tag \in {"Typed", "Untyped"} )
                   => a.offset + StrLen(a.origin) # b.offset
        /\ pre.res = "Ok" =>
               \A k \in 1..Len(pre.pretokens) : pre.pretokens[k].pt # "Vector"

\* C29 witness: preprocess of `42h43`, where the Typed token 42h ends at the
\* byte where 43 starts, failed on the span of 42h.
C29_Witness ==
    /\ whole = <<"4", "2", "h", "4", "3">>
    /\ pre # NotRun
    /\ pre.res = "Err"
    /\ pre.error.err = "InvalidVectorLiteralError"
    /\ pre.error.lo = 0 /\ pre.error.hi = 3

\* The tokens of the pre-tokens, in order.
RECURSIVE Flatten(_)
Flatten(pts) == IF pts = <<>> THEN <<>> ELSE Head(pts).tokens \o Flatten(Tail(pts))

\* C30: when preprocess succeeds, the tokens of its pre-tokens in order are
\* the tokens of the Lexer's stream on the input, and a pre-token of one
\* numeric token is a Single.
C30_FlattenIsTokenStream ==
    (pre # NotRun /\ pre.res = "Ok") =>
        /\ Flatten(pre.pretokens) = SelectSeq(Stream(whole), LAMBDA it : it.res = "Ok")
        /\ \A k \in 1..Len(pre.pretokens) :
               LET pt == pre.pretokens[k]
               IN  /\ Len(pt.tokens) >= 1
                   /\ pt.pt # "Vector" => Len(pt.tokens) = 1
                   /\ (Len(pt.tokens) = 1 /\ pt.tokens[1].kind.tag \in {"Typed", "Untyped"})
                          => pt.pt = "Single"

\* C30 witness: preprocess of `42 43 44j` returned three Singles, one for
\* each token.
C30_Witness ==
    /\ whole = <<"4", "2", " ", "4", "3", " ", "4", "4", "j">>
    /\ pre # NotRun /\ pre.res = "Ok"
    /\ Len(pre.pretokens) = 3
    /\ \A k \in 1..3 : pre.pretokens[k].pt = "Single"
    /\ pre.pretokens[3].tokens = <<Token(<<"4", "4", "j">>, 6, Typed("Long"))>>

====
